---- MODULE Spec2Model ----
(***************************************************************************)
(* A model of the floop AI workflow: the provider clients with their       *)
(* retry loops (src/src/chatgpt_client.py, claude_client.py,               *)
(* web_search_client.py), input resolution (src/src/input_handler.py),     *)
(* the legacy workflow (src/src/workflow.py) and the configurable          *)
(* workflow (src/src/config_workflow.py).                                  *)
(*                                                                         *)
(* A Python str is a sequence of symbols.  A symbol is an indivisible      *)
(* piece of text; the braces and the dot are symbols of their own, so      *)
(* that scanning, splitting and substitution see them.  A Python dict is   *)
(* a function on its keys (a record).  None is a value no str equals.      *)
(***************************************************************************)
EXTENDS Integers, Sequences, FiniteSets, TLC

VARIABLES
    pc,           \* position of the run: idle, loop, attempt, returned, output, done
    entry,        \* the function that was called from outside
    call_args,    \* the arguments of that call
    frame,        \* the code the active invoker call returns to
    model,        \* the model selector of a legacy run
    input_result, \* value of input resolution
    context,      \* the context of a configurable run
    steps,        \* names of the steps completed so far
    idx,          \* iterations of the loop over ai_models completed
    inv,          \* frame of the active invoker call
    response,     \* outcome the last invoker call returned
    claude_response, \* the first outcome of the claude-first sequence
    result,       \* the workflow result handed to output handling
    output_args,  \* the output arguments and whether the destination is writable
    attempts,     \* log of provider attempts (API requests)
    invocations,  \* log of invoker calls
    sleeps,       \* log of the back-off delays slept, in units of retry_delay
    faults,       \* provider failures so far
    ret,          \* value returned by the entry function
    raised        \* exception that escaped the entry function

vars == <<pc, entry, call_args, frame, model, input_result, context, steps, idx,
          inv, response, claude_response, result, output_args, attempts,
          invocations, sleeps, faults, ret, raised>>

----------------------------------------------------------------------------
(* Bounds of the model *)

\* longest ai_models / steps list of a configuration
MaxSteps == 2
\* largest retry budget passed to a directly called invoker
MaxRetries == 2
\* most provider failures injected into one workflow run
MaxFaults == 4
\* most pieces (literal texts, placeholders, braces) of a template given
\* to process_template
MaxPieces == 2

----------------------------------------------------------------------------
(* Values *)

None == <<"<None>">>
NoValue == [unset |-> TRUE]
NoException == "none"

Get(d, k, default) == IF k \in DOMAIN d THEN d[k] ELSE default

\* d[k] = v, as a new dict
Put(d, k, v) == [x \in DOMAIN d \cup {k} |-> IF x = k THEN v ELSE d[x]]

\* str.strip() leaves nothing
IsBlank(s) == \A k \in 1..Len(s) : s[k] = " "

\* truthiness of an optional str
Truthy(s) == s # None /\ s # <<>>

FirstIndex(s, from, sym) ==
    LET hits == {k \in from..Len(s) : s[k] = sym}
    IN  IF hits = {} THEN 0 ELSE CHOOSE k \in hits : \A j \in hits : k <= j

----------------------------------------------------------------------------
(* str.format with the context as keyword arguments, as execute_step uses it *)

FormatOk(text) == [exc |-> NoException, text |-> text, key |-> <<>>]
FormatError(exc, key) == [exc |-> exc, text |-> <<>>, key |-> key]

FormatPrepend(lit, r) ==
    IF r.exc = NoException THEN [r EXCEPT !.text = lit \o @] ELSE r

\* the str() of a context value: a str is itself, a dict is its repr
StrOf(name, value) ==
    IF name = "input" THEN value ELSE <<"repr(" \o name \o ")">>

\* one replacement field, the text between the braces
FormatField(field, ctx) ==
    LET dot == FirstIndex(field, 1, ".")
        name == IF dot = 0 THEN field ELSE SubSeq(field, 1, dot - 1)
    IN  IF FirstIndex(field, 1, "{") # 0 THEN FormatError("ValueError", <<>>)
        ELSE IF name = <<>> THEN FormatError("IndexError", <<>>)
        ELSE IF Len(name) # 1 \/ name[1] \notin DOMAIN ctx
             THEN FormatError("KeyError", name)
        ELSE IF dot = 0 THEN FormatOk(StrOf(name[1], ctx[name[1]]))
        ELSE IF dot = Len(field) \/ field[dot + 1] = "."
             THEN FormatError("ValueError", <<>>)
        ELSE FormatError("AttributeError", SubSeq(field, dot + 1, Len(field)))

RECURSIVE FormatFrom(_, _, _)
FormatFrom(t, k, ctx) ==
    IF k > Len(t) THEN FormatOk(<<>>)
    ELSE IF t[k] = "{" THEN
        IF k < Len(t) /\ t[k + 1] = "{"
        THEN FormatPrepend(<<"{">>, FormatFrom(t, k + 2, ctx))
        ELSE LET close == FirstIndex(t, k + 1, "}")
             IN  IF close = 0 THEN FormatError("ValueError", <<>>)
                 ELSE LET f == FormatField(SubSeq(t, k + 1, close - 1), ctx)
                      IN  IF f.exc # NoException THEN f
                          ELSE FormatPrepend(f.text, FormatFrom(t, close + 1, ctx))
    ELSE IF t[k] = "}" THEN
        IF k < Len(t) /\ t[k + 1] = "}"
        THEN FormatPrepend(<<"}">>, FormatFrom(t, k + 2, ctx))
        ELSE FormatError("ValueError", <<>>)
    ELSE FormatPrepend(<<t[k]>>, FormatFrom(t, k + 1, ctx))

Format(template, ctx) == FormatFrom(template, 1, ctx)

----------------------------------------------------------------------------
(* The provider clients: call_chatgpt, call_claude, call_web_search *)

Invokers == {"call_chatgpt", "call_claude", "call_web_search"}

DefaultMaxRetries == 3

DefaultModel(fn) ==
    CASE fn = "call_chatgpt" -> "gpt-3.5-turbo"
      [] fn = "call_claude" -> "claude-3-sonnet-20240229"
      [] OTHER -> "gpt-4o"

SorryText ==
    <<"Sorry, I encountered an error while processing your request.">>

\* str.lower(), symbol by symbol
Lower(sym) ==
    CASE sym = "Rate Limit" -> "rate limit"
      [] sym = "Timeout" -> "timeout"
      [] sym = "Server Error" -> "server error"
      [] OTHER -> sym

TransientIndicators == {"timeout", "rate limit", "server error", "503", "429"}

IsTemporaryError(error_message) ==
    \E error_type \in TransientIndicators :
        \E k \in 1..Len(error_message) : Lower(error_message[k]) = error_type

\* an input is either a str, held as [str |-> s], or a dict
IsDict(input_data) == "str" \notin DOMAIN input_data
StrInput(s) == [str |-> s]

SuccessOutcome(f, text) ==
    IF f.fn = "call_web_search"
    THEN [text |-> text, query |-> f.prompt, source |-> f.source,
          model |-> "web_search", usage |-> "usage"]
    ELSE [text |-> text, model |-> DefaultModel(f.fn), usage |-> "usage"]

ErrorOutcome(fn, error_message) ==
    IF fn = "call_web_search"
    THEN [error |-> error_message,
          text |-> <<"Error performing web search: ">> \o error_message]
    ELSE [error |-> error_message, text |-> SorryText]

MaximumRetriesExceeded(fn) == ErrorOutcome(fn, <<"Maximum retries exceeded">>)

\* the value call_chatgpt / call_claude return for a directory processed
\* file by file
CombinedResults(fn, directory_path, results) ==
    [results |-> results,
     model |-> DefaultModel(fn),
     input_source |-> "directory",
     directory_path |-> directory_path,
     file_count |-> Len(results),
     processing_strategy |-> "individual",
     metadata |->
        [successful_files |->
            Cardinality({k \in 1..Len(results) : "error" \notin DOMAIN results[k]}),
         failed_files |->
            Cardinality({k \in 1..Len(results) : "error" \in DOMAIN results[k]})]]

Returned(value) == [done |-> TRUE, value |-> value]
Running(f) == [done |-> FALSE, frame |-> f]

IsIndividual(fn, input_data) ==
    /\ fn # "call_web_search"
    /\ IsDict(input_data)
    /\ Get(input_data, "source", "unknown") = "directory"
    /\ "files" \in DOMAIN input_data
    /\ Get(input_data, "processing_strategy", None) = "individual"

\* what has to be sent to the provider in one attempt
Content(f) ==
    IF f.fn = "call_web_search"
    THEN <<"Search the web for information about: ">> \o f.prompt
    ELSE f.prompt

\* the call of an invoker up to its first provider attempt
CallInvoker(fn, input_data, max_retries) ==
    LET text == IF IsDict(input_data) THEN Get(input_data, "text", <<>>)
                ELSE input_data.str
        f == [fn |-> fn, mode |-> "single", prompt |-> text,
              source |-> IF ~IsDict(input_data) THEN "direct"
                         ELSE Get(input_data, "source", "unknown"),
              file_path |-> "", queue |-> <<>>, results |-> <<>>,
              directory_path |-> "", retry_count |-> 0,
              max_retries |-> max_retries]
    IN  IF IsIndividual(fn, input_data) THEN
            LET files == input_data.files IN
            IF files = <<>> \/ max_retries < 0
            THEN Returned(CombinedResults(fn,
                    Get(input_data, "directory_path", "unknown"),
                    [k \in 1..Len(files) |->
                        MaximumRetriesExceeded(fn) @@
                        [file_path |-> Get(files[k], "file_path", "unknown")]]))
            ELSE Running([f EXCEPT
                    !.mode = "individual",
                    !.prompt = Get(files[1], "content", <<>>),
                    !.file_path = Get(files[1], "file_path", "unknown"),
                    !.queue = Tail(files),
                    !.directory_path = Get(input_data, "directory_path", "unknown")])
        ELSE IF fn = "call_web_search" /\ ~Truthy(text)
        THEN Returned([error |-> <<"Empty search query">>,
                       text |-> <<"Error: Empty search query">>])
        ELSE IF max_retries < 0 THEN Returned(MaximumRetriesExceeded(fn))
        ELSE Running(f)

\* a directory's processing given up at the first file that failed
Complete_StopAtFailure(f, o) ==
    IF f.mode = "single" THEN Returned(o)
    ELSE LET results == Append(f.results, o @@ [file_path |-> f.file_path])
         IN  IF f.queue = <<>> \/ "error" \in DOMAIN o
             THEN Returned(CombinedResults(f.fn, f.directory_path, results))
             ELSE Running([f EXCEPT
                    !.results = results,
                    !.prompt = Get(Head(f.queue), "content", <<>>),
                    !.file_path = Get(Head(f.queue), "file_path", "unknown"),
                    !.queue = Tail(f.queue),
                    !.retry_count = 0])

\* a single prompt's call has ended with outcome o
Complete(f, o) ==
    IF f.mode = "single" THEN Returned(o)
    ELSE LET results == Append(f.results, o @@ [file_path |-> f.file_path])
         IN  IF f.queue = <<>>
             THEN Returned(CombinedResults(f.fn, f.directory_path, results))
             ELSE Running([f EXCEPT
                    !.results = results,
                    !.prompt = Get(Head(f.queue), "content", <<>>),
                    !.file_path = Get(Head(f.queue), "file_path", "unknown"),
                    !.queue = Tail(f.queue),
                    !.retry_count = 0])

\* a success that follows a retry reported as a failure
AttemptSucceeded_RetriesShow(f, text) ==
    Complete(f, IF f.retry_count > 0
                THEN ErrorOutcome(f.fn, <<"Maximum retries exceeded">>)
                ELSE SuccessOutcome(f, text))

\* the provider answered the attempt with a text
AttemptSucceeded(f, text) == Complete(f, SuccessOutcome(f, text))

\* the retry test with the budget one too small
ShouldRetry_Strict(f, error_message) ==
    IsTemporaryError(error_message) /\ f.retry_count + 1 < f.max_retries

\* the retry test leaving out the classification of the message
ShouldRetry_AnyError(f, error_message) ==
    f.retry_count + 1 <= f.max_retries

\* the retry test allowing one retry more than the budget
ShouldRetry_OneMore(f, error_message) ==
    IsTemporaryError(error_message) /\ f.retry_count <= f.max_retries

\* the provider call raised an exception with this message
ShouldRetry(f, error_message) ==
    IsTemporaryError(error_message) /\ f.retry_count + 1 <= f.max_retries

\* a delay growing by one unit per retry
Delay_Linear(retry_count) == retry_count

\* the back-off delay in units of retry_delay
Delay(retry_count) == 2 ^ (retry_count - 1)

\* a loop left by its condition once the budget is used up
AttemptFailed_FallsThrough(f, error_message) ==
    IF IsTemporaryError(error_message)
    THEN IF f.retry_count + 1 <= f.max_retries
         THEN Running([f EXCEPT !.retry_count = @ + 1])
         ELSE Complete(f, ErrorOutcome(f.fn, <<"Maximum retries exceeded">>))
    ELSE Complete(f, ErrorOutcome(f.fn, error_message))

AttemptFailed(f, error_message) ==
    IF ShouldRetry(f, error_message)
    THEN Running([f EXCEPT !.retry_count = @ + 1])
    ELSE Complete(f, ErrorOutcome(f.fn, error_message))

----------------------------------------------------------------------------
(* The file system the run reads, and input resolution (input_handler.py) *)

\* a path argument that was not given
NoPath == "<None>"

\* files that exist and can be read, with their content
FileContent ==
    [path \in {"a.txt", "empty.txt", "blank.txt", "docs/a.txt", "docs/empty.txt"} |->
        CASE path \in {"a.txt", "docs/a.txt"} -> <<"hello">>
          [] path = "blank.txt" -> <<" ">>
          [] OTHER -> <<>>]

\* the sorted glob of a directory; no such directory lists nothing
DirectoryListing ==
    [dir \in {"docs", "void", "locked"} |->
        CASE dir = "docs" -> <<"docs/a.txt", "docs/empty.txt">>
          [] dir = "locked" -> <<"locked/secret.txt">>
          [] OTHER -> <<>>]

read_file(file_path) ==
    IF file_path \notin DOMAIN FileContent THEN None
    ELSE IF IsBlank(FileContent[file_path]) THEN <<>>
    ELSE FileContent[file_path]

find_files_in_directory(directory_path) ==
    IF directory_path \notin DOMAIN DirectoryListing THEN <<>>
    ELSE DirectoryListing[directory_path]

InputError(message) == [error |-> message, text |-> None]

\* the readable ones among the files, in order
RECURSIVE Readable(_)
Readable(files) ==
    IF files = <<>> THEN <<>>
    ELSE IF read_file(Head(files)) = None THEN Readable(Tail(files))
    ELSE <<Head(files)>> \o Readable(Tail(files))

RECURSIVE JoinContents(_)
JoinContents(files) ==
    IF Len(files) = 1 THEN read_file(files[1])
    ELSE read_file(files[1]) \o <<"\n\n--- Next File ---\n\n">>
            \o JoinContents(Tail(files))

process_directory(directory_path, processing_strategy) ==
    LET files == find_files_in_directory(directory_path)
        good == Readable(files)
    IN  IF files = <<>>
        THEN InputError(<<"No files found matching pattern in ", directory_path>>)
        ELSE IF processing_strategy = "concatenate" THEN
            IF good = <<>>
            THEN InputError(<<"Failed to read any files in the directory">>)
            ELSE [text |-> JoinContents(good), source |-> "directory",
                  directory_path |-> directory_path, file_count |-> Len(good),
                  files |-> good, processing_strategy |-> "concatenate"]
        ELSE IF processing_strategy = "individual" THEN
            IF good = <<>>
            THEN InputError(<<"Failed to read any files in the directory">>)
            ELSE [files |-> [k \in 1..Len(good) |->
                                [file_path |-> good[k], content |-> read_file(good[k])]],
                  source |-> "directory", directory_path |-> directory_path,
                  file_count |-> Len(good), processing_strategy |-> "individual"]
        ELSE InputError(<<"Unknown processing strategy: ", processing_strategy>>)

\* process_input without its test for no input at all
process_input_Unchecked(input_text, input_file, input_directory, processing_strategy) ==
    IF input_directory # NoPath
    THEN process_directory(input_directory, processing_strategy)
    ELSE IF input_file # NoPath THEN
        IF read_file(input_file) = None
        THEN InputError(<<"Failed to read file: ", input_file>>)
        ELSE [text |-> read_file(input_file), source |-> "file",
              file_path |-> input_file]
    ELSE IF IsBlank(input_text) THEN InputError(<<"Empty input provided">>)
    ELSE [text |-> input_text, source |-> "text"]

\* process_input preferring the direct text to a file
process_input_TextFirst(input_text, input_file, input_directory, processing_strategy) ==
    IF input_directory # NoPath
    THEN process_directory(input_directory, processing_strategy)
    ELSE IF input_text = None /\ input_file = NoPath
    THEN InputError(<<"No input provided">>)
    ELSE IF input_text = None THEN
        IF read_file(input_file) = None
        THEN InputError(<<"Failed to read file: ", input_file>>)
        ELSE [text |-> read_file(input_file), source |-> "file",
              file_path |-> input_file]
    ELSE IF IsBlank(input_text) THEN InputError(<<"Empty input provided">>)
    ELSE [text |-> input_text, source |-> "text"]

process_input(input_text, input_file, input_directory, processing_strategy) ==
    IF input_directory # NoPath
    THEN process_directory(input_directory, processing_strategy)
    ELSE IF input_text = None /\ input_file = NoPath
    THEN InputError(<<"No input provided">>)
    ELSE IF input_file # NoPath THEN
        IF read_file(input_file) = None
        THEN InputError(<<"Failed to read file: ", input_file>>)
        ELSE [text |-> read_file(input_file), source |-> "file",
              file_path |-> input_file]
    ELSE IF IsBlank(input_text) THEN InputError(<<"Empty input provided">>)
    ELSE [text |-> input_text, source |-> "text"]

----------------------------------------------------------------------------
(* Output formatting (output_formatter.py) *)

SentenceEnd == {".", "!", "?", ":", ";"}

\* re.sub(r'\s+', ' ', text).strip(): runs of blanks collapse, the ends go
RECURSIVE Squeeze(_, _)
Squeeze(s, pending) ==
    IF s = <<>> THEN <<>>
    ELSE IF Head(s) = " " THEN Squeeze(Tail(s), TRUE)
    ELSE (IF pending THEN <<" ">> ELSE <<>>) \o <<Head(s)>> \o Squeeze(Tail(s), FALSE)

StripLeft(s) == IF s # <<>> /\ Head(s) = " " THEN Tail(s) ELSE s

\* clean_text(text, preserve_line_breaks=False)
clean_text(text) ==
    IF ~Truthy(text) THEN <<>>
    ELSE LET cleaned == StripLeft(Squeeze(text, FALSE))
         IN  IF cleaned # <<>> /\ cleaned[Len(cleaned)] \notin SentenceEnd
             THEN cleaned \o <<".">>
             ELSE cleaned

CleanIfText(d) ==
    IF "text" \in DOMAIN d THEN [d EXCEPT !.text = clean_text(@)] ELSE d

\* format_output(response); the dict it is given is changed in place
format_output(resp) ==
    IF DOMAIN resp = {} THEN resp
    ELSE IF "results" \in DOMAIN resp
    THEN [resp EXCEPT !.results = [k \in 1..Len(@) |-> CleanIfText(@[k])]]
    ELSE CleanIfText(resp)

\* a dict stored under one of its own keys
SelfReference == [cycle |-> TRUE]

\* json.dumps fails on a dict that contains itself
HasCycle(resp) ==
    /\ "steps" \in DOMAIN resp
    /\ \E k \in 1..Len(resp.steps) : resp[resp.steps[k]] = SelfReference

\* format_for_display(response, format_type): the rendered text, or the
\* exception rendering raises
format_for_display(resp, format_type) ==
    IF DOMAIN resp = {} THEN FormatOk(<<"No response available.">>)
    ELSE IF "error" \in DOMAIN resp THEN FormatOk(<<"Error: ">> \o resp.error)
    ELSE IF "results" \in DOMAIN resp
         THEN FormatOk(<<"Directory Processing Results", format_type>>)
    ELSE IF format_type = "markdown"
         THEN FormatOk(<<"# AI Response", "## Result">> \o Get(resp, "text", <<>>)
                       \o <<"*Generated by ",
                            Get(resp, "model_info", Get(resp, "model", "unknown")), "*">>)
    ELSE IF format_type = "json"
         THEN IF HasCycle(resp) THEN FormatError("ValueError", <<>>)
              ELSE FormatOk(<<"json.dumps">> \o Get(resp, "text", <<>>))
    ELSE IF format_type = "html"
         THEN FormatOk(<<"<!DOCTYPE html>", "<h2>Result</h2>">> \o Get(resp, "text", <<>>)
                       \o <<"Generated by ",
                            Get(resp, "model_info", Get(resp, "model", "unknown"))>>)
    ELSE FormatOk(Get(resp, "text", <<>>))

\* save_results_to_file(response, output_file, format_type): True or False
save_results_to_file(resp, format_type, writable) ==
    /\ writable
    /\ ~(format_type = "json" /\ HasCycle(resp))
    /\ format_for_display(resp, format_type).exc = NoException

----------------------------------------------------------------------------
(* The run: calls of the invokers and the provider's answers *)

\* texts a provider answers with
ProviderTexts == {<<"X">>, <<"{", "x", "}">>}

\* messages of the exceptions a provider call raises
ProviderErrors == {<<"Rate Limit", " reached">>, <<"Invalid API key">>}

\* every model selector dispatched to ChatGPT
FnOf_AlwaysChatGPT(m) == "call_chatgpt"

\* the invoker a model selector is dispatched to
FnOf(m) ==
    CASE m = "chatgpt" -> "call_chatgpt"
      [] m = "claude" -> "call_claude"
      [] m = "web_search" -> "call_web_search"

\* a call of an invoker from the code at fr: it runs up to its first
\* provider attempt, or returns at once
Invoke(fn, input_data, max_retries, fr) ==
    LET c == CallInvoker(fn, input_data, max_retries)
    IN  /\ invocations' = Append(invocations, [fn |-> fn, input_data |-> input_data])
        /\ frame' = fr
        /\ IF c.done
           THEN /\ response' = c.value
                /\ inv' = NoValue
                /\ pc' = "returned"
           ELSE /\ response' = NoValue
                /\ inv' = c.frame
                /\ pc' = "attempt"

\* the entry function returns value
Return(value) ==
    /\ ret' = value
    /\ pc' = "done"

\* an exception escapes the entry function
Raise(exc) ==
    /\ raised' = exc
    /\ pc' = "done"

FaultAllowed == entry = "invoker" \/ faults < MaxFaults

Resume(c) ==
    IF c.done
    THEN /\ response' = c.value
         /\ inv' = NoValue
         /\ pc' = "returned"
    ELSE /\ inv' = c.frame
         /\ pc' = "attempt"
         /\ UNCHANGED response

\* client.chat.completions.create / client.messages.create returns
ProviderSucceeds ==
    /\ pc = "attempt"
    /\ \E text \in ProviderTexts :
        /\ Resume(AttemptSucceeded(inv, text))
        /\ attempts' = Append(attempts, [fn |-> inv.fn, content |-> Content(inv),
                                         failed |-> FALSE, answer |-> text])
    /\ UNCHANGED <<entry, call_args, frame, model, input_result, context, steps,
                   idx, claude_response, result, output_args, invocations,
                   sleeps, faults, ret, raised>>

\* the provider call raises; the except branch sleeps and retries or gives up
ProviderFails ==
    /\ pc = "attempt"
    /\ FaultAllowed
    /\ \E error_message \in ProviderErrors :
        /\ Resume(AttemptFailed(inv, error_message))
        /\ sleeps' = IF ShouldRetry(inv, error_message)
                     THEN Append(sleeps, Delay(inv.retry_count + 1))
                     ELSE sleeps
        /\ attempts' = Append(attempts, [fn |-> inv.fn, content |-> Content(inv),
                                         failed |-> TRUE, answer |-> error_message])
    /\ faults' = faults + 1
    /\ UNCHANGED <<entry, call_args, frame, model, input_result, context, steps,
                   idx, claude_response, result, output_args, invocations,
                   ret, raised>>

----------------------------------------------------------------------------
(* A direct call of an invoker *)

Prompts == {<<"hello">>, <<>>}

\* the retry budgets a caller passes, a negative one included
RetryBudgets == (-1)..MaxRetries

CallDirect ==
    /\ pc = "idle"
    /\ \E fn \in Invokers, prompt \in Prompts, max_retries \in RetryBudgets :
        /\ call_args' = [fn |-> fn, prompt |-> prompt, max_retries |-> max_retries]
        /\ Invoke(fn, StrInput(prompt), max_retries, "direct")
    /\ entry' = "invoker"
    /\ UNCHANGED <<model, input_result, context, steps, idx, claude_response,
                   result, output_args, attempts, sleeps, faults, ret, raised>>

DirectReturns ==
    /\ pc = "returned"
    /\ frame = "direct"
    /\ Return(response)
    /\ UNCHANGED <<entry, call_args, frame, model, input_result, context, steps,
                   idx, inv, response, claude_response, result, output_args,
                   attempts, invocations, sleeps, faults, raised>>

----------------------------------------------------------------------------
(* The legacy workflow: run_workflow of workflow.py *)

InputArgs(input_text, input_file, input_directory, processing_strategy, web_search) ==
    [input_text |-> input_text, input_file |-> input_file,
     input_directory |-> input_directory,
     processing_strategy |-> processing_strategy, web_search |-> web_search]

\* the input arguments of a call: one source, none, or competing sources
TextInputs ==
    {InputArgs(t, NoPath, NoPath, "individual", None) :
        t \in {<<"hello">>, <<>>, <<" ">>, <<"{", "input", "}">>}}
FileInputs ==
    {InputArgs(None, f, NoPath, "individual", None) :
        f \in {"a.txt", "empty.txt", "blank.txt", "missing.txt"}}
DirectoryInputs ==
    {InputArgs(None, NoPath, d, "individual", None) : d \in {"docs", "void", "locked"}}
    \cup {InputArgs(None, NoPath, "docs", "concatenate", None)}
SearchInputs ==
    {InputArgs(None, NoPath, NoPath, "individual", q) : q \in {<<"query">>, <<>>}}
MixedInputs ==
    {InputArgs(<<"hello">>, "empty.txt", NoPath, "individual", None),
     InputArgs(<<"hello">>, NoPath, NoPath, "individual", <<"query">>),
     InputArgs(<<"hello">>, NoPath, NoPath, "individual", <<>>),
     InputArgs(<<"hello">>, "empty.txt", "docs", "concatenate", None),
     InputArgs(<<"hello">>, "empty.txt", "docs", "concatenate", <<"query">>)}
NoInput == InputArgs(None, NoPath, NoPath, "individual", None)

CliInputs ==
    TextInputs \cup FileInputs \cup DirectoryInputs \cup SearchInputs
        \cup MixedInputs \cup {NoInput}

LegacyModels == {"chatgpt", "claude", "web_search", "claude-first"}

\* run_workflow up to the call of the model
RunWorkflow ==
    /\ pc = "idle"
    /\ entry' = "run_workflow"
    /\ \E cli \in CliInputs, m \in LegacyModels :
        LET resolved ==
                IF Truthy(cli.web_search)
                THEN [text |-> cli.web_search, source |-> "web_search_query"]
                ELSE process_input(cli.input_text, cli.input_file,
                                   cli.input_directory, cli.processing_strategy)
            selected == IF Truthy(cli.web_search) THEN "web_search" ELSE m
        IN  /\ call_args' = [cli |-> cli, model |-> m]
            /\ input_result' = resolved
            /\ model' = selected
            /\ IF "error" \in DOMAIN resolved
               THEN /\ Return(resolved)
                    /\ UNCHANGED <<frame, inv, response, invocations>>
               ELSE IF selected \in {"chatgpt", "claude", "web_search"}
               THEN /\ Invoke(FnOf(selected), resolved, DefaultMaxRetries, "run_workflow")
                    /\ UNCHANGED ret
               ELSE /\ Return([error |-> <<"Invalid model: ", selected>>])
                    /\ UNCHANGED <<frame, inv, response, invocations>>
    /\ UNCHANGED <<context, steps, idx, claude_response, result, output_args,
                   attempts, sleeps, faults, raised>>

\* run_workflow going on to its output whatever the model call returned
ModelReturned_Unchecked ==
    /\ pc = "returned"
    /\ frame = "run_workflow"
    /\ result' = format_output(response)
    /\ pc' = "output"
    /\ UNCHANGED <<entry, call_args, frame, model, input_result, context, steps,
                   idx, inv, response, claude_response, output_args, attempts,
                   invocations, sleeps, faults, raised, ret>>

\* run_workflow once the model call has returned
ModelReturned ==
    /\ pc = "returned"
    /\ frame = "run_workflow"
    /\ IF "error" \in DOMAIN response
       THEN /\ Return(response)
            /\ UNCHANGED result
       ELSE /\ result' = format_output(response)
            /\ pc' = "output"
            /\ UNCHANGED ret
    /\ UNCHANGED <<entry, call_args, frame, model, input_result, context, steps,
                   idx, inv, response, claude_response, output_args, attempts,
                   invocations, sleeps, faults, raised>>

FormatTypes == {"text", "markdown", "json", "html"}

OutputFiles == {NoPath, "out.txt"}

\* run_workflow's output handling
LegacyOutput ==
    /\ pc = "output"
    /\ entry = "run_workflow"
    /\ \E output_file \in OutputFiles, format_type \in FormatTypes, writable \in BOOLEAN :
        /\ output_file = NoPath => writable
        /\ output_args' = [output_file |-> output_file, format_type |-> format_type,
                           writable |-> writable]
        /\ IF output_file # NoPath
           THEN IF save_results_to_file(result, format_type, writable)
                THEN Return(result)
                ELSE Return([error |-> <<"Failed to save output to file">>])
           ELSE Return([output_type |-> "console",
                        output |-> format_for_display(result, format_type).text,
                        format |-> format_type,
                        result |-> result])
    /\ UNCHANGED <<entry, call_args, frame, model, input_result, context, steps,
                   idx, inv, response, claude_response, result, attempts,
                   invocations, sleeps, faults, raised>>

----------------------------------------------------------------------------
(* process_single_input of workflow.py *)

\* Claude's text passed on without the instruction around it
WrapForChatGPT_Bare(text) == text

\* the prompt the claude-first sequence gives to ChatGPT
WrapForChatGPT(text) ==
    <<"Here's an analysis from another AI assistant: ">> \o text
        \o <<"\n\nPlease review and refine this analysis.">>

SourceInfos == {NoValue, [source |-> "text"]}

\* process_single_input up to its first model call
ProcessSingleInput ==
    /\ pc = "idle"
    /\ entry' = "process_single_input"
    /\ \E input_content \in Prompts, m \in LegacyModels \cup {"bogus"},
          source_info \in SourceInfos :
        /\ call_args' = [input_content |-> input_content, model |-> m,
                         source_info |-> source_info]
        /\ model' = m
        /\ IF m \in {"chatgpt", "claude", "web_search"}
           THEN /\ Invoke(FnOf(m), StrInput(input_content), DefaultMaxRetries,
                          "single.only")
                /\ UNCHANGED ret
           ELSE IF m = "claude-first"
           THEN /\ Invoke("call_claude", StrInput(input_content), DefaultMaxRetries,
                          "single.claude")
                /\ UNCHANGED ret
           ELSE /\ Return([error |-> <<"Invalid model: ", m>>, result |-> None])
                /\ UNCHANGED <<frame, inv, response, invocations>>
    /\ UNCHANGED <<input_result, context, steps, idx, claude_response, result,
                   output_args, attempts, sleeps, faults, raised>>

\* the claude-first sequence once Claude has returned
ClaudeReturned ==
    /\ pc = "returned"
    /\ frame = "single.claude"
    /\ IF "error" \in DOMAIN response
       THEN /\ Return([error |-> response.error, result |-> None])
            /\ UNCHANGED <<frame, inv, response, invocations, claude_response>>
       ELSE /\ claude_response' = response
            /\ Invoke("call_chatgpt", StrInput(WrapForChatGPT(response.text)),
                      DefaultMaxRetries, "single.chatgpt")
            /\ UNCHANGED ret
    /\ UNCHANGED <<entry, call_args, model, input_result, context, steps, idx,
                   result, output_args, attempts, sleeps, faults, raised>>

SingleResult(resp, m, source_info) ==
    LET r == [result |-> resp.text,
              model |-> m,
              input_source |-> IF source_info # NoValue
                               THEN Get(source_info, "source", "None")
                               ELSE "unknown",
              metadata |-> [model_info |-> Get(resp, "model", "unknown"),
                            usage |-> Get(resp, "usage", "{}")]]
        updated == IF source_info # NoValue THEN source_info @@ r ELSE r
    IN  IF "claude_response" \in DOMAIN resp
        THEN Put(updated, "claude_response", resp.claude_response)
        ELSE updated

\* process_single_input once its last model call has returned
SingleReturned ==
    /\ pc = "returned"
    /\ frame \in {"single.only", "single.chatgpt"}
    /\ LET resp == IF frame = "single.chatgpt" /\ "error" \notin DOMAIN response
                   THEN Put(response, "claude_response", claude_response.text)
                   ELSE response
       IN  IF "error" \in DOMAIN resp
           THEN Return([error |-> resp.error, result |-> None])
           ELSE Return(SingleResult(resp, model, call_args.source_info))
    /\ UNCHANGED <<entry, call_args, frame, model, input_result, context, steps,
                   idx, inv, response, claude_response, result, output_args,
                   attempts, invocations, sleeps, faults, raised>>

----------------------------------------------------------------------------
(* process_template of config_workflow.py *)

\* sub occurs in s at position k
OccursAt(s, sub, k) ==
    k + Len(sub) - 1 <= Len(s) /\ SubSeq(s, k, k + Len(sub) - 1) = sub

\* sub in s, for two strs
Contains(s, sub) == \E k \in 1..(Len(s) + 1) : OccursAt(s, sub, k)

\* re.findall(r'\{([^}]+)\}', t) from position k on
RECURSIVE FindPlaceholders(_, _)
FindPlaceholders(t, k) ==
    IF k > Len(t) THEN <<>>
    ELSE IF t[k] # "{" THEN FindPlaceholders(t, k + 1)
    ELSE LET close == FirstIndex(t, k + 1, "}")
         IN  IF close = 0 THEN <<>>
             ELSE IF close = k + 1 THEN FindPlaceholders(t, k + 1)
             ELSE <<SubSeq(t, k + 1, close - 1)>> \o FindPlaceholders(t, close + 1)

\* s.replace(old, new), old not empty
RECURSIVE Replace(_, _, _)
Replace(s, old, new) ==
    IF s = <<>> THEN <<>>
    ELSE IF OccursAt(s, old, 1)
    THEN new \o Replace(SubSeq(s, Len(old) + 1, Len(s)), old, new)
    ELSE <<Head(s)>> \o Replace(Tail(s), old, new)

\* placeholder.split('.')
RECURSIVE Split(_)
Split(placeholder) ==
    LET dot == FirstIndex(placeholder, 1, ".")
    IN  IF dot = 0 THEN <<placeholder>>
        ELSE <<SubSeq(placeholder, 1, dot - 1)>>
                \o Split(SubSeq(placeholder, dot + 1, Len(placeholder)))

\* the fields of a step record that hold a dict
DictFields == {"usage"}

\* a str field of a step record, as a sequence of symbols
TextOf(field, value) ==
    IF field \in {"output", "text", "task"} THEN value ELSE <<value>>

\* the body of the loop for one placeholder: the new result, or the
\* exception raised
ResolvePlaceholder(res, placeholder, ctx) ==
    LET braced == <<"{">> \o placeholder \o <<"}">>
        parts == Split(placeholder)
        step_name == parts[1]
        attribute == parts[2]
    IN  IF placeholder = <<"input">> THEN
            IF "input" \in DOMAIN ctx
            THEN FormatOk(Replace(res, braced, ctx.input))
            ELSE FormatOk(res)
        ELSE IF Len(parts) = 1 THEN FormatOk(res)
        ELSE IF Len(parts) # 2 THEN FormatError("ValueError", placeholder)
        ELSE IF Len(step_name) # 1 \/ step_name[1] \notin DOMAIN ctx
        THEN FormatOk(res)
        ELSE IF step_name[1] = "input" THEN
            \* the value is a str: a substring test, then an index by a str
            IF Contains(ctx.input, attribute)
            THEN FormatError("TypeError", placeholder)
            ELSE FormatOk(res)
        ELSE IF Len(attribute) # 1 \/ attribute[1] \notin DOMAIN ctx[step_name[1]]
        THEN FormatOk(res)
        ELSE IF attribute[1] \in DictFields
        THEN FormatError("TypeError", placeholder)
        ELSE FormatOk(Replace(res, braced,
                              TextOf(attribute[1], ctx[step_name[1]][attribute[1]])))

\* the loop over the placeholders from position k on
RECURSIVE ResolveFrom(_, _, _, _)
ResolveFrom(res, placeholders, k, ctx) ==
    IF k > Len(placeholders) THEN FormatOk(res)
    ELSE LET r == ResolvePlaceholder(res, placeholders[k], ctx)
         IN  IF r.exc # NoException THEN r
             ELSE ResolveFrom(r.text, placeholders, k + 1, ctx)

\* a resolver that keeps its result in the context
process_template_Consuming(template, ctx) ==
    LET r == ResolveFrom(template, FindPlaceholders(template, 1), 1, ctx)
    IN  [exc |-> r.exc, text |-> r.text,
         context |-> IF r.exc = NoException THEN Put(ctx, "input", r.text) ELSE ctx]

\* process_template(template, context): the str returned or the exception
\* raised, and the context as the call leaves it
process_template(template, ctx) ==
    LET r == ResolveFrom(template, FindPlaceholders(template, 1), 1, ctx)
    IN  [exc |-> r.exc, text |-> r.text, context |-> ctx]

----------------------------------------------------------------------------
(* execute_step of config_workflow.py *)

ValidModels == {"chatgpt", "claude", "web_search"}

\* execute_step up to the call of the model: the prompt is resolved and
\* the model dispatched; an early return is an error record
EnterStep(step_config, ctx, fr) ==
    LET step_model == Get(step_config, "model", "chatgpt")
        prompt_template == Get(step_config, "prompt_template", <<"{", "input", "}">>)
        input_data == Format(prompt_template, ctx)
    IN  IF input_data.exc = "KeyError"
        THEN /\ Return([error |-> <<"Missing context variable: ", "'">>
                                    \o input_data.key \o <<"'">>,
                        output |-> None])
             /\ UNCHANGED <<frame, inv, response, invocations, raised>>
        ELSE IF input_data.exc # NoException
        THEN /\ Raise(input_data.exc)
             /\ UNCHANGED <<frame, inv, response, invocations, ret>>
        ELSE IF step_model \in ValidModels
        THEN /\ Invoke(FnOf(step_model), StrInput(input_data.text),
                       DefaultMaxRetries, fr)
             /\ UNCHANGED <<ret, raised>>
        ELSE /\ Return([error |-> <<"Invalid model: ", step_model>>, output |-> None])
             /\ UNCHANGED <<frame, inv, response, invocations, raised>>

\* an error record that keeps the text of the failed response as its output
StepRecord_WithText(step_config, resp) ==
    IF "error" \in DOMAIN resp
    THEN [error |-> resp.error, output |-> Get(resp, "text", <<>>)]
    ELSE [output |-> Get(resp, "text", <<>>),
          text |-> Get(resp, "text", <<>>),
          model |-> Get(step_config, "model", "chatgpt"),
          model_info |-> Get(resp, "model", Get(step_config, "model", "chatgpt")),
          usage |-> Get(resp, "usage", "{}"),
          step_name |-> Get(step_config, "name", "unnamed_step"),
          task |-> Get(step_config, "task",
                       <<"Step ", Get(step_config, "name", "unnamed_step")>>)]

\* an error record with a message of the step's own
StepRecord_OwnMessage(step_config, resp) ==
    IF "error" \in DOMAIN resp
    THEN [error |-> <<"Error in step: ">> \o resp.error, output |-> None]
    ELSE [output |-> Get(resp, "text", <<>>),
          text |-> Get(resp, "text", <<>>),
          model |-> Get(step_config, "model", "chatgpt"),
          model_info |-> Get(resp, "model", Get(step_config, "model", "chatgpt")),
          usage |-> Get(resp, "usage", "{}"),
          step_name |-> Get(step_config, "name", "unnamed_step"),
          task |-> Get(step_config, "task",
                       <<"Step ", Get(step_config, "name", "unnamed_step")>>)]

\* what execute_step returns once the model call has returned
StepRecord(step_config, resp) ==
    IF "error" \in DOMAIN resp
    THEN [error |-> resp.error, output |-> None]
    ELSE [output |-> Get(resp, "text", <<>>),
          text |-> Get(resp, "text", <<>>),
          model |-> Get(step_config, "model", "chatgpt"),
          model_info |-> Get(resp, "model", Get(step_config, "model", "chatgpt")),
          usage |-> Get(resp, "usage", "{}"),
          step_name |-> Get(step_config, "name", "unnamed_step"),
          task |-> Get(step_config, "task",
                       <<"Step ", Get(step_config, "name", "unnamed_step")>>)]

Templates ==
    {<<"{", "input", "}">>,
     <<"Review: ", "{", "s1", ".", "output", "}">>,
     <<"Review: ", "{", "s9", ".", "output", "}">>,
     <<"{", "{", "input", "}", "}">>,
     <<"plain">>,
     <<"{", "input">>}

ExampleRecord ==
    [output |-> <<"X">>, text |-> <<"X">>, model |-> "chatgpt",
     model_info |-> "gpt-3.5-turbo", usage |-> "usage", step_name |-> "s1",
     task |-> <<"Step ", "s1">>]

Contexts ==
    {[input |-> <<"hello">>], [input |-> <<"hello">>, s1 |-> ExampleRecord]}

StepConfigs ==
    {[name |-> "s2", model |-> m, prompt_template |-> t] :
        m \in {"chatgpt", "bogus"}, t \in Templates}
    \cup {[name |-> "s1"]}

\* a call of execute_step
ExecuteStep ==
    /\ pc = "idle"
    /\ entry' = "execute_step"
    /\ \E step_config \in StepConfigs, ctx \in Contexts :
        /\ call_args' = [step_config |-> step_config, context |-> ctx]
        /\ context' = ctx
        /\ EnterStep(step_config, ctx, "execute_step")
    /\ UNCHANGED <<model, input_result, steps, idx, claude_response, result,
                   output_args, attempts, sleeps, faults>>

\* execute_step keeping its own record in the context it was given
ExecuteStepReturned_Stores ==
    /\ pc = "returned"
    /\ frame = "execute_step"
    /\ Return(StepRecord(call_args.step_config, response))
    /\ context' = Put(context, Get(call_args.step_config, "name", "unnamed_step"),
                      StepRecord(call_args.step_config, response))
    /\ UNCHANGED <<entry, call_args, frame, model, input_result, steps,
                   idx, inv, response, claude_response, result, output_args,
                   attempts, invocations, sleeps, faults, raised>>

ExecuteStepReturned ==
    /\ pc = "returned"
    /\ frame = "execute_step"
    /\ Return(StepRecord(call_args.step_config, response))
    /\ UNCHANGED <<entry, call_args, frame, model, input_result, context, steps,
                   idx, inv, response, claude_response, result, output_args,
                   attempts, invocations, sleeps, faults, raised>>

----------------------------------------------------------------------------
(* The configurable workflow: run_configurable_workflow of config_workflow.py *)

StepKey(n) == "step_" \o ToString(n)

SeqsUpTo(S, n) == UNION {[1..k -> S] : k \in 0..n}

ConfigModels == {"chatgpt", "claude", "web_search", "bogus"}

\* configurations with an ai_models list
AiModelsConfigs ==
    {[ai_models |-> [k \in 1..Len(names) |-> [name |-> names[k]]]] :
        names \in SeqsUpTo(ConfigModels, MaxSteps)}

\* configurations with a steps list, as the configuration files have it
StepsConfigs ==
    {[steps |-> <<[name |-> "s1", model |-> "claude",
                   prompt_template |-> <<"{", "input", "}">>]>>],
     [steps |-> <<[name |-> "s1", model |-> "claude",
                   prompt_template |-> <<"{", "input", "}">>],
                  [name |-> "s2", model |-> "chatgpt",
                   prompt_template |-> <<"Review: ", "{", "s1", ".", "output", "}">>]>>]}

\* configurations with one model
ModelConfigs == {[model |-> [type |-> t]] : t \in {"claude", "web_search", "bogus"}}

Configs == AiModelsConfigs \cup StepsConfigs \cup ModelConfigs

\* the input section of a configuration
InputConfigs ==
    {<<>>,
     [type |-> "text", value |-> <<"hello">>],
     [type |-> "text", value |-> <<>>],
     [type |-> "file", path |-> "empty.txt"],
     [type |-> "directory", path |-> "docs"],
     [type |-> "url"]}

\* the input arguments of a configurable run
ConfigCliInputs ==
    {InputArgs(<<"hello">>, NoPath, NoPath, "individual", None),
     InputArgs(<<>>, NoPath, NoPath, "individual", None),
     InputArgs(None, "empty.txt", NoPath, "individual", None),
     InputArgs(None, "missing.txt", NoPath, "individual", None),
     InputArgs(None, NoPath, "docs", "individual", None),
     InputArgs(None, NoPath, NoPath, "individual", <<"query">>),
     InputArgs(<<"hello">>, NoPath, NoPath, "individual", <<>>),
     InputArgs(<<"hello">>, "empty.txt", NoPath, "individual", None),
     InputArgs(<<"hello">>, "empty.txt", "docs", "concatenate", None)}

ConfigRunInputs ==
    {[cli |-> cli, input_config |-> [type |-> "text", value |-> <<"hello">>]] :
        cli \in ConfigCliInputs}
    \cup {[cli |-> NoInput, input_config |-> ic] : ic \in InputConfigs}
    \cup {[cli |-> InputArgs(<<"hello">>, NoPath, NoPath, "individual", None),
           input_config |-> [type |-> "file", path |-> "empty.txt"]]}

get_input_from_config(input_config, cli) ==
    IF cli.web_search # None
    THEN [text |-> cli.web_search, source |-> "web_search_query"]
    ELSE IF cli.input_text # None \/ cli.input_file # NoPath
            \/ cli.input_directory # NoPath
    THEN process_input(cli.input_text, cli.input_file, cli.input_directory,
                       cli.processing_strategy)
    ELSE LET input_type == Get(input_config, "type", "None") IN
         IF input_type = "text"
         THEN process_input(Get(input_config, "value", <<>>), NoPath, NoPath,
                            "individual")
         ELSE IF input_type = "file"
         THEN process_input(None, Get(input_config, "path", ""), NoPath, "individual")
         ELSE IF input_type = "directory"
         THEN process_input(None, NoPath, Get(input_config, "path", ""),
                            Get(input_config, "processing_strategy", "individual"))
         ELSE InputError(<<"Invalid input type: ", input_type>>)

\* an entry that takes an empty ai_models list as no list at all
EnterConfigurable_NonEmpty(cfg, in, args) ==
        LET resolved == get_input_from_config(in.input_config, in.cli)
            model_type == IF in.cli.web_search # None THEN "web_search"
                          ELSE Get(Get(cfg, "model", <<>>), "type", "chatgpt")
        IN  /\ call_args' = args
            /\ input_result' = resolved
            /\ IF "error" \in DOMAIN resolved
               THEN /\ Return(resolved)
                    /\ UNCHANGED <<frame, inv, response, invocations, context, model>>
               ELSE IF "ai_models" \in DOMAIN cfg /\ cfg.ai_models # <<>>
               THEN /\ context' = [input |-> Get(resolved, "text", <<>>)]
                    /\ pc' = "loop"
                    /\ UNCHANGED <<frame, inv, response, invocations, ret, model>>
               ELSE IF model_type \in ValidModels
               THEN /\ Invoke(FnOf(model_type), resolved, DefaultMaxRetries,
                              "configurable.model")
                    /\ model' = model_type
                    /\ UNCHANGED <<ret, context>>
               ELSE /\ Return([error |-> <<"Invalid model type: ", model_type>>])
                    /\ UNCHANGED <<frame, inv, response, invocations, context, model>>

\* run_configurable_workflow up to the loop over ai_models or, without
\* ai_models, up to the call of the configured model
EnterConfigurable(cfg, in, args) ==
        LET resolved == get_input_from_config(in.input_config, in.cli)
            model_type == IF in.cli.web_search # None THEN "web_search"
                          ELSE Get(Get(cfg, "model", <<>>), "type", "chatgpt")
        IN  /\ call_args' = args
            /\ input_result' = resolved
            /\ IF "error" \in DOMAIN resolved
               THEN /\ Return(resolved)
                    /\ UNCHANGED <<frame, inv, response, invocations, context, model>>
               ELSE IF "ai_models" \in DOMAIN cfg
               THEN /\ context' = [input |-> Get(resolved, "text", <<>>)]
                    /\ pc' = "loop"
                    /\ UNCHANGED <<frame, inv, response, invocations, ret, model>>
               ELSE IF model_type \in ValidModels
               THEN /\ Invoke(FnOf(model_type), resolved, DefaultMaxRetries,
                              "configurable.model")
                    /\ model' = model_type
                    /\ UNCHANGED <<ret, context>>
               ELSE /\ Return([error |-> <<"Invalid model type: ", model_type>>])
                    /\ UNCHANGED <<frame, inv, response, invocations, context, model>>

\* a call of run_configurable_workflow
RunConfigurableWorkflow ==
    /\ pc = "idle"
    /\ entry' = "run_configurable_workflow"
    /\ \E cfg \in Configs, in \in ConfigRunInputs :
        EnterConfigurable(cfg, in, [config |-> cfg, cli |-> in.cli,
                                    input_config |-> in.input_config])
    /\ UNCHANGED <<steps, idx, claude_response, result, output_args, attempts,
                   sleeps, faults, raised>>

\* the step configuration the loop builds for the entry at position n
StepConfigOf(model_config, n) ==
    [name |-> StepKey(n),
     model |-> Get(model_config, "name", "None"),
     prompt_template |-> <<"{", "input", "}">>,
     task |-> Get(model_config, "task", <<"Step ", ToString(n)>>)]

\* one iteration of the loop, up to the call of the step's model
RunStep ==
    /\ pc = "loop"
    /\ idx < Len(call_args.config.ai_models)
    /\ EnterStep(StepConfigOf(call_args.config.ai_models[idx + 1], idx + 1),
                 context, "configurable.step")
    /\ UNCHANGED <<entry, call_args, model, input_result, context, steps, idx,
                   claude_response, result, output_args, attempts, sleeps, faults>>

\* the iteration going on to the next step after a failed one
StepReturned_Continue ==
    /\ pc = "returned"
    /\ frame = "configurable.step"
    /\ LET step_result ==
            StepRecord(StepConfigOf(call_args.config.ai_models[idx + 1], idx + 1),
                       response)
       IN  /\ context' = IF "error" \in DOMAIN step_result THEN context
                         ELSE Put(Put(context, StepKey(idx + 1), step_result),
                                  "input", step_result.output)
           /\ steps' = Append(steps, StepKey(idx + 1))
           /\ idx' = idx + 1
           /\ pc' = "loop"
    /\ UNCHANGED <<entry, call_args, frame, model, input_result, inv, response,
                   claude_response, result, output_args, attempts, invocations,
                   sleeps, faults, ret, raised>>

\* the iteration leaving the input of the next step as it was
StepReturned_KeepInput ==
    /\ pc = "returned"
    /\ frame = "configurable.step"
    /\ LET step_result ==
            StepRecord(StepConfigOf(call_args.config.ai_models[idx + 1], idx + 1),
                       response)
       IN  IF "error" \in DOMAIN step_result
           THEN /\ Return(step_result)
                /\ UNCHANGED <<context, steps, idx>>
           ELSE /\ context' = Put(context, StepKey(idx + 1), step_result)
                /\ steps' = Append(steps, StepKey(idx + 1))
                /\ idx' = idx + 1
                /\ pc' = "loop"
                /\ UNCHANGED ret
    /\ UNCHANGED <<entry, call_args, frame, model, input_result, inv, response,
                   claude_response, result, output_args, attempts, invocations,
                   sleeps, faults, raised>>

\* the iteration keeping the record of a failed step in the context
StepReturned_StoreFailed ==
    /\ pc = "returned"
    /\ frame = "configurable.step"
    /\ LET step_result ==
            StepRecord(StepConfigOf(call_args.config.ai_models[idx + 1], idx + 1),
                       response)
       IN  IF "error" \in DOMAIN step_result
           THEN /\ Return(step_result)
                /\ context' = Put(context, StepKey(idx + 1), step_result)
                /\ UNCHANGED <<steps, idx>>
           ELSE /\ context' = Put(Put(context, StepKey(idx + 1), step_result),
                                  "input", step_result.output)
                /\ steps' = Append(steps, StepKey(idx + 1))
                /\ idx' = idx + 1
                /\ pc' = "loop"
                /\ UNCHANGED ret
    /\ UNCHANGED <<entry, call_args, frame, model, input_result, inv, response,
                   claude_response, result, output_args, attempts, invocations,
                   sleeps, faults, raised>>

\* the rest of the iteration once the step's model call has returned
StepReturned ==
    /\ pc = "returned"
    /\ frame = "configurable.step"
    /\ LET step_result ==
            StepRecord(StepConfigOf(call_args.config.ai_models[idx + 1], idx + 1),
                       response)
       IN  IF "error" \in DOMAIN step_result
           THEN /\ Return(step_result)
                /\ UNCHANGED <<context, steps, idx>>
           ELSE /\ context' = Put(Put(context, StepKey(idx + 1), step_result),
                                  "input", step_result.output)
                /\ steps' = Append(steps, StepKey(idx + 1))
                /\ idx' = idx + 1
                /\ pc' = "loop"
                /\ UNCHANGED ret
    /\ UNCHANGED <<entry, call_args, frame, model, input_result, inv, response,
                   claude_response, result, output_args, attempts, invocations,
                   sleeps, faults, raised>>

\* the final result naming the last step only
FinalResult_LastOnly(ctx, names) ==
    LET n == Len(names)
        base == IF n > 0 /\ StepKey(n) \in DOMAIN ctx THEN ctx[StepKey(n)] ELSE <<>>
        keys == DOMAIN base \cup {"steps"} \cup {names[k] : k \in 1..n}
    IN  [k \in keys |->
            IF k = "steps" THEN (IF n > 0 THEN <<names[n]>> ELSE <<>>)
            ELSE IF n > 0 /\ k = StepKey(n) THEN SelfReference
            ELSE IF k \in {names[j] : j \in 1..n} THEN ctx[k]
            ELSE base[k]]

\* the last step's record with the step list and the steps' records added
\* to it; it is the dict the context holds, which so comes to hold itself
FinalResult(ctx, names) ==
    LET n == Len(names)
        base == IF n > 0 /\ StepKey(n) \in DOMAIN ctx THEN ctx[StepKey(n)] ELSE <<>>
        keys == DOMAIN base \cup {"steps"} \cup {names[k] : k \in 1..n}
    IN  [k \in keys |->
            IF k = "steps" THEN names
            ELSE IF n > 0 /\ k = StepKey(n) THEN SelfReference
            ELSE IF k \in {names[j] : j \in 1..n} THEN ctx[k]
            ELSE base[k]]

\* the loop has ended: the final result is built
Aggregate ==
    /\ pc = "loop"
    /\ idx = Len(call_args.config.ai_models)
    /\ result' = FinalResult(context, steps)
    /\ context' = IF idx > 0
                  THEN Put(context, StepKey(idx), FinalResult(context, steps))
                  ELSE context
    /\ pc' = "output"
    /\ UNCHANGED <<entry, call_args, frame, model, input_result, steps, idx, inv,
                   response, claude_response, output_args, attempts, invocations,
                   sleeps, faults, ret, raised>>

\* without ai_models: the configured model's call has returned
ConfiguredModelReturned ==
    /\ pc = "returned"
    /\ frame = "configurable.model"
    /\ IF "error" \in DOMAIN response
       THEN /\ Return(response)
            /\ UNCHANGED result
       ELSE /\ result' = response
            /\ pc' = "output"
            /\ UNCHANGED ret
    /\ UNCHANGED <<entry, call_args, frame, model, input_result, context, steps,
                   idx, inv, response, claude_response, output_args, attempts,
                   invocations, sleeps, faults, raised>>

OutputArgs(output_file, format_type, output_config, writable) ==
    [output_file |-> output_file, format_type |-> format_type,
     output_config |-> output_config, writable |-> writable]

FileMarkdown == [type |-> "file", path |-> "report.md", format |-> "markdown"]
ConsoleJson == [type |-> "console", format |-> "json"]

\* the output arguments of a configurable run and its configuration's
\* output section
OutputChoices ==
    {OutputArgs(NoPath, "text", <<>>, TRUE),
     OutputArgs(NoPath, "json", <<>>, TRUE),
     OutputArgs("out.txt", "text", <<>>, TRUE),
     OutputArgs("out.txt", "text", <<>>, FALSE),
     OutputArgs("out.txt", "json", <<>>, TRUE),
     OutputArgs(NoPath, "text", FileMarkdown, TRUE),
     OutputArgs(NoPath, "text", FileMarkdown, FALSE),
     OutputArgs(NoPath, "html", ConsoleJson, TRUE),
     OutputArgs(NoPath, "text", ConsoleJson, TRUE),
     OutputArgs(NoPath, "markdown", [type |-> "file"], TRUE)}

\* handle_output(result, config, cli_output_file, cli_format_type)
handle_output(res, output_config, cli_output_file, cli_format_type, writable) ==
    LET output_type == Get(output_config, "type", "console")
        output_path == IF cli_output_file # NoPath THEN cli_output_file
                       ELSE Get(output_config, "path", NoPath)
        format_type == IF cli_format_type # "" THEN cli_format_type
                       ELSE Get(output_config, "format", "text")
        formatted_result == format_output(res)
        display_output == format_for_display(formatted_result, format_type)
    IN  IF output_type = "file" \/ output_path # NoPath
        THEN IF display_output.exc # NoException
             THEN [exc |-> NoException,
                   value |-> [error |-> <<"Error saving output to file: ",
                                          display_output.exc>>]]
             ELSE IF output_path = NoPath
             THEN [exc |-> NoException,
                   value |-> [error |-> <<"Error saving output to file: ",
                                          "TypeError">>]]
             ELSE IF ~writable
             THEN [exc |-> NoException,
                   value |-> [error |-> <<"Error saving output to file: ",
                                          "OSError">>]]
             ELSE [exc |-> NoException,
                   value |-> [output_type |-> "file", output_path |-> output_path,
                              format |-> format_type, result |-> formatted_result,
                              output |-> display_output.text]]
        ELSE IF display_output.exc # NoException
             THEN [exc |-> display_output.exc, value |-> NoValue]
             ELSE [exc |-> NoException,
                   value |-> [output_type |-> "console",
                              output |-> display_output.text,
                              format |-> format_type, result |-> formatted_result]]

\* the format run_configurable_workflow passes on to handle_output
PassedFormat(format_type, output_config) ==
    IF format_type = "" \/ format_type = "text"
    THEN Get(output_config, "format", "text")
    ELSE format_type

\* the output handling of a configurable run
HandleOutput ==
    /\ pc = "output"
    /\ entry \in {"run_configurable_workflow", "config_workflow.run_workflow"}
    /\ \E o \in OutputChoices :
        LET out == handle_output(result, o.output_config, o.output_file,
                                 PassedFormat(o.format_type, o.output_config),
                                 o.writable)
        IN  /\ output_args' = o
            /\ IF out.exc # NoException
               THEN /\ Raise(out.exc)
                    /\ UNCHANGED ret
               ELSE /\ Return(out.value)
                    /\ UNCHANGED raised
    \* format_output works on the dict it is given, which after a step list
    \* is the record the context holds for the last step
    /\ result' = format_output(result)
    /\ context' = IF "ai_models" \in DOMAIN call_args.config /\ idx > 0
                  THEN Put(context, StepKey(idx), format_output(result))
                  ELSE context
    /\ UNCHANGED <<entry, call_args, frame, model, input_result, steps,
                   idx, inv, response, claude_response, attempts,
                   invocations, sleeps, faults>>

----------------------------------------------------------------------------
(* Calls of process_template *)

\* the pieces templates are put together from: literal text, placeholders
\* that resolve, placeholders that do not, and stray braces
TemplatePieces ==
    {<<"Review: ">>,
     <<"{", "input", "}">>,
     <<"{", "s1", ".", "output", "}">>,
     <<"{", "s9", ".", "output", "}">>,
     <<"{", "s1", ".", "nope", "}">>,
     <<"{", "foo", "}">>,
     <<"{", "s9", ".", "output", ".", "x", "}">>,
     <<"{", "s1", ".", "output", ".", "x", "}">>,
     <<"{", "input", ".", "upper", "}">>,
     <<"{", "s1", ".", "usage", "}">>,
     <<"{">>,
     <<"}">>}

RECURSIVE Flatten(_)
Flatten(pieces) ==
    IF pieces = <<>> THEN <<>> ELSE Head(pieces) \o Flatten(Tail(pieces))

TemplateInputs == {Flatten(ps) : ps \in SeqsUpTo(TemplatePieces, MaxPieces)}

\* contexts: the input alone, with the record of a step s1, and with values
\* that themselves read as placeholders
TemplateContexts ==
    {[input |-> <<"hello">>],
     [input |-> <<"hello">>, s1 |-> ExampleRecord],
     [input |-> <<"upper">>, s1 |-> ExampleRecord],
     [input |-> <<"{", "s1", ".", "output", "}">>,
      s1 |-> [ExampleRecord EXCEPT !.output = <<"{", "input", "}">>]]}

\* a call of process_template
ProcessTemplate ==
    /\ pc = "idle"
    /\ entry' = "process_template"
    /\ \E template \in TemplateInputs, ctx \in TemplateContexts :
        LET r == process_template(template, ctx)
        IN  /\ call_args' = [template |-> template, context |-> ctx]
            /\ context' = r.context
            /\ IF r.exc # NoException
               THEN /\ Raise(r.exc)
                    /\ UNCHANGED ret
               ELSE /\ ret' = StrInput(r.text)
                    /\ pc' = "resolved"
                    /\ UNCHANGED raised
    /\ UNCHANGED <<frame, model, input_result, steps, idx, inv, response,
                   claude_response, result, output_args, attempts, invocations,
                   sleeps, faults>>

\* the same template resolved once more against the context the first
\* call left
ProcessTemplateAgain ==
    /\ pc = "resolved"
    /\ LET r == process_template(call_args.template, context)
       IN  /\ context' = r.context
           /\ IF r.exc # NoException
              THEN /\ Raise(r.exc)
                   /\ UNCHANGED result
              ELSE /\ result' = StrInput(r.text)
                   /\ pc' = "done"
                   /\ UNCHANGED raised
    /\ UNCHANGED <<entry, call_args, frame, model, input_result, steps, idx, inv,
                   response, claude_response, output_args, attempts, invocations,
                   sleeps, faults, ret>>

----------------------------------------------------------------------------
(* run_workflow of config_workflow.py *)

\* the configuration files: their parsed content, or text that is not JSON
ConfigFiles ==
    [path \in {"workflow.json", "empty.json", "bad.json"} |->
        CASE path = "workflow.json" ->
                [ai_models |-> <<[name |-> "chatgpt"], [name |-> "claude"]>>,
                 input |-> [type |-> "text", value |-> <<"hello">>]]
          [] path = "empty.json" -> <<>>
          [] OTHER -> [invalid_json |-> TRUE]]

\* the None that load_config returns
NoConfig == [is_none |-> TRUE]

\* load_config(config_path): the parsed configuration or None
load_config(config_path) ==
    IF config_path \notin DOMAIN ConfigFiles THEN NoConfig
    ELSE IF "invalid_json" \in DOMAIN ConfigFiles[config_path] THEN NoConfig
    ELSE ConfigFiles[config_path]

\* not config: None or a dict without keys
NotConfig(config) == "is_none" \in DOMAIN config \/ DOMAIN config = {}

ConfigPaths == {NoPath, "workflow.json", "empty.json", "bad.json", "missing.json"}

\* the model argument: None or a model selector
RequestedModels == {"None", "claude"}

\* a call of config_workflow.run_workflow
ConfigRunWorkflow ==
    /\ pc = "idle"
    /\ entry' = "config_workflow.run_workflow"
    /\ \E config_path \in ConfigPaths, legacy_mode \in BOOLEAN,
          requested \in RequestedModels,
          cli \in {NoInput, InputArgs(<<"hello">>, NoPath, NoPath, "individual", None)} :
        LET args == [config_path |-> config_path, legacy_mode |-> legacy_mode,
                     model |-> requested, cli |-> cli]
            config == load_config(config_path)
        IN  IF legacy_mode \/ config_path = NoPath
            THEN \* the name run_legacy_workflow is not defined in the module
                 /\ call_args' = args
                 /\ Raise("NameError")
                 /\ UNCHANGED <<frame, inv, response, invocations, context,
                                model, input_result, ret>>
            ELSE IF NotConfig(config)
            THEN /\ call_args' = args
                 /\ Return([error |-> <<"Failed to load configuration from: ",
                                        config_path>>,
                            result |-> None])
                 /\ UNCHANGED <<frame, inv, response, invocations, context,
                                model, input_result, raised>>
            ELSE /\ EnterConfigurable(config,
                        [cli |-> cli, input_config |-> Get(config, "input", <<>>)],
                        args @@ [config |-> config,
                                 input_config |-> Get(config, "input", <<>>)])
                 /\ UNCHANGED raised
    /\ UNCHANGED <<steps, idx, claude_response, result, output_args, attempts,
                   sleeps, faults>>

----------------------------------------------------------------------------

Init ==
    /\ pc = "idle"
    /\ entry = "none"
    /\ call_args = NoValue
    /\ frame = "none"
    /\ model = "none"
    /\ input_result = NoValue
    /\ context = NoValue
    /\ steps = <<>>
    /\ idx = 0
    /\ inv = NoValue
    /\ response = NoValue
    /\ claude_response = NoValue
    /\ result = NoValue
    /\ output_args = NoValue
    /\ attempts = <<>>
    /\ invocations = <<>>
    /\ sleeps = <<>>
    /\ faults = 0
    /\ ret = NoValue
    /\ raised = NoException

Next ==
    \/ CallDirect
    \/ DirectReturns
    \/ RunWorkflow
    \/ ModelReturned
    \/ LegacyOutput
    \/ ProcessSingleInput
    \/ ClaudeReturned
    \/ SingleReturned
    \/ ExecuteStep
    \/ ExecuteStepReturned
    \/ RunConfigurableWorkflow
    \/ RunStep
    \/ StepReturned
    \/ Aggregate
    \/ ConfiguredModelReturned
    \/ HandleOutput
    \/ ConfigRunWorkflow
    \/ ProcessTemplate
    \/ ProcessTemplateAgain
    \/ ProviderSucceeds
    \/ ProviderFails

Spec == Init /\ [][Next]_vars

\* the steps of a call of an invoker or of a workflow that is under way
Continue ==
    \/ DirectReturns
    \/ ModelReturned
    \/ LegacyOutput
    \/ ClaudeReturned
    \/ SingleReturned
    \/ ExecuteStepReturned
    \/ RunStep
    \/ StepReturned
    \/ Aggregate
    \/ ConfiguredModelReturned
    \/ HandleOutput
    \/ ProviderSucceeds
    \/ ProviderFails

\* a call under way runs on: the code is synchronous, and each provider
\* attempt returns or raises
FairSpec == Spec /\ WF_vars(Continue)

----------------------------------------------------------------------------
(* Properties *)

IsError(value) == "error" \in DOMAIN value

ConfiguredRun == entry = "run_configurable_workflow"

ChainedRun == ConfiguredRun /\ "ai_models" \in DOMAIN call_args.config

ChainLength == Len(call_args.config.ai_models)

\* the run ended inside the loop: the step at position idx + 1 failed
StepFailed == ChainedRun /\ pc = "done" /\ ~IsError(input_result) /\ idx < ChainLength

\* the error the step at position idx + 1 returned
FailedStepError ==
    IF call_args.config.ai_models[idx + 1].name \in ValidModels
    THEN response.error
    ELSE <<"Invalid model: ", call_args.config.ai_models[idx + 1].name>>

\* C1: in a run over a step list of length N whose step k returns an
\* error, the invokers are called for the steps up to k only (none for
\* the steps k+1..N), the run stops at that error response, and the value
\* the run returns carries exactly step k's error message.
C1_FailedStepAborts ==
    /\ (ChainedRun /\ frame = "configurable.step" /\ IsError(response))
            => pc \in {"returned", "done"} /\ Len(invocations) = idx + 1
    /\ StepFailed =>
            /\ Len(invocations) <= idx + 1
            /\ steps = [k \in 1..idx |-> StepKey(k)]
            /\ raised = NoException
            /\ IsError(ret)
            /\ ret.error = FailedStepError

C1_Witness ==
    /\ StepFailed
    /\ ChainLength = 2
    /\ idx = 0
    /\ call_args.config.ai_models[2].name \in ValidModels
    /\ Len(attempts) >= 1
    /\ ret.error = response.error

\* C2: a legacy run with the model selector claude-first calls Claude and
\* then ChatGPT, two invoker calls in that order; if the Claude call
\* returns an error, ChatGPT is not called and the run returns Claude's
\* error.
C2_ClaudeFirstLegacy ==
    (/\ entry = "run_workflow"
     /\ pc = "done"
     /\ call_args.model = "claude-first"
     /\ model = "claude-first"
     /\ ~IsError(input_result))
        => \/ /\ Len(invocations) = 2
              /\ invocations[1].fn = "call_claude"
              /\ invocations[2].fn = "call_chatgpt"
           \/ /\ Len(invocations) = 1
              /\ invocations[1].fn = "call_claude"
              /\ IsError(ret)
              /\ \E k \in 1..Len(attempts) : ret.error = attempts[k].answer

AllTransient ==
    \A k \in 1..Len(attempts) :
        attempts[k].failed /\ IsTemporaryError(attempts[k].answer)

DirectCallEnded == entry = "invoker" /\ pc \in {"returned", "done"}

\* C3 as claimed: for every retry budget n >= 0, when every provider
\* attempt fails with a transient error, each invoker makes exactly n + 1
\* attempts and then returns an error outcome.
C3_RetryBudget_AsClaimed ==
    (DirectCallEnded /\ AllTransient)
        => Len(attempts) = call_args.max_retries + 1 /\ IsError(response)

\* C3: for every retry budget n >= 0, when every provider attempt fails
\* with a transient error, call_chatgpt_single and call_claude_single, and
\* call_web_search given a query that is not empty, make exactly n + 1
\* attempts and then return an error outcome.
C3_RetryBudget ==
    (/\ DirectCallEnded
     /\ AllTransient
     /\ ~(call_args.fn = "call_web_search" /\ call_args.prompt = <<>>))
        => Len(attempts) = call_args.max_retries + 1 /\ IsError(response)

C3_Witness ==
    /\ DirectCallEnded
    /\ AllTransient
    /\ call_args.fn = "call_web_search"
    /\ call_args.max_retries = 2
    /\ Len(attempts) = 3
    /\ IsError(response)

\* C4: execute_step, given step s2 with the template Review: {s1.output}
\* and a context that holds the record of s1 with output X, calls the
\* model with the prompt Review: X.
C4_ChainedTemplate ==
    (/\ entry = "execute_step"
     /\ call_args.step_config = [name |-> "s2", model |-> "chatgpt",
                                 prompt_template |->
                                    <<"Review: ", "{", "s1", ".", "output", "}">>]
     /\ "s1" \in DOMAIN call_args.context)
        => /\ raised = NoException
           /\ Len(invocations) = 1
           /\ invocations[1].input_data
                = StrInput(<<"Review: ">> \o call_args.context.s1.output)

\* C5: a run configured with a steps list of length N calls the models of
\* those N steps, each once, in the declared order.
C5_StepsListExecuted ==
    (/\ ConfiguredRun
     /\ pc = "done"
     /\ "steps" \in DOMAIN call_args.config
     /\ call_args.cli.web_search = None
     /\ ret # NoValue
     /\ ~IsError(ret))
        => /\ Len(invocations) = Len(call_args.config.steps)
           /\ \A k \in 1..Len(invocations) :
                invocations[k].fn = FnOf(call_args.config.steps[k].model)

\* the text the provider answered the k-th invoker call of a chained run with
OutputOfStep(k) == context[StepKey(k)].output

\* C6: in the chained step list the first step's model is called with
\* exactly the initial input text, and the model of step i+1 with exactly
\* the output text of step i, braces included.
C6_ChainedPrompts ==
    ChainedRun =>
        /\ \A k \in 1..Len(invocations) :
            /\ k <= idx + 1
            /\ invocations[k].input_data
                 = StrInput(IF k = 1 THEN Get(input_result, "text", <<>>)
                            ELSE OutputOfStep(k - 1))
        /\ \A k \in 1..idx :
            \E a \in 1..Len(attempts) :
                ~attempts[a].failed /\ attempts[a].answer = OutputOfStep(k)

C6_Witness ==
    /\ ChainedRun
    /\ Len(invocations) = 2
    /\ input_result.text = <<"hello">>
    /\ invocations[1].input_data = StrInput(<<"hello">>)
    /\ invocations[2].input_data = StrInput(<<"{", "x", "}">>)
    /\ attempts[1].answer = <<"{", "x", "}">>

HasInvalidModel ==
    \E k \in 1..ChainLength : call_args.config.ai_models[k].name \notin ValidModels

\* C7: if a step of the list names an unrecognized model, no invoker is
\* called and no provider attempt is made for any step of that run.
C7_InvalidModelBeforeAnyStep ==
    (ChainedRun /\ HasInvalidModel) => invocations = <<>> /\ attempts = <<>>

WorkflowRun == entry \in {"run_workflow", "run_configurable_workflow"}

\* the input arguments name nothing to read, a file that cannot be read,
\* a directory without matching files, or the configuration's input
\* section has no valid type
UnusableInput ==
    LET cli == call_args.cli IN
    /\ cli.web_search = None
    /\ \/ cli = NoInput /\ entry = "run_workflow"
       \/ cli = NoInput /\ Get(call_args.input_config, "type", "None")
                                \notin {"text", "file", "directory"}
       \/ cli.input_directory = NoPath /\ cli.input_file = "missing.txt"
       \/ cli.input_directory = "void"

\* C8: when input resolution returns an error (no input, unreadable file,
\* no matching files, invalid input type in the configuration) the run
\* returns that error and calls no model, in run_workflow and in
\* run_configurable_workflow.
C8_InputErrorStopsRun ==
    WorkflowRun =>
        /\ UnusableInput => IsError(input_result)
        /\ IsError(input_result) =>
            /\ pc = "done"
            /\ ret = input_result
            /\ raised = NoException
            /\ invocations = <<>>
            /\ attempts = <<>>

C8_Witness ==
    /\ ConfiguredRun
    /\ call_args.cli = NoInput
    /\ call_args.input_config = [type |-> "url"]
    /\ ChainedRun
    /\ ChainLength = 2
    /\ pc = "done"
    /\ ret = InputError(<<"Invalid input type: ", "url">>)

\* the one input source given is empty: blank text, an empty file or an
\* empty search query
EmptySource ==
    LET cli == call_args.cli IN
    \/ cli \in TextInputs /\ IsBlank(cli.input_text)
    \/ cli \in FileInputs /\ cli.input_file \in {"empty.txt", "blank.txt"}
    \/ cli = InputArgs(None, NoPath, NoPath, "individual", <<>>)

\* C9: whenever the resolved input source is empty, no provider attempt is
\* made and the run ends with an error.
C9_EmptyInputIsError ==
    (WorkflowRun /\ EmptySource) =>
        /\ attempts = <<>>
        /\ pc = "done" => IsError(ret)

\* all model calls succeeded but the destination could not be written
WriteFailed ==
    /\ WorkflowRun
    /\ pc = "done"
    /\ output_args # NoValue
    /\ ~output_args.writable

\* C10: when the model calls succeeded and writing the output destination
\* fails, the returned value reports the output error and still carries
\* the computed workflow result.
C10_ResultSurvivesOutputError ==
    WriteFailed => IsError(ret) /\ "result" \in DOMAIN ret /\ ret.result = result

\* the value has a usable field of this name: present and not None
Usable(value, field) == field \in DOMAIN value /\ value[field] # None

RunEntries ==
    {"run_workflow", "config_workflow.run_workflow", "run_configurable_workflow",
     "process_single_input", "execute_step"}

\* C11: in every value a run returns (run_workflow,
\* run_configurable_workflow, process_single_input, execute_step) the error
\* field and a usable output or result field exclude each other.
C11_ErrorExcludesOutput ==
    (entry \in RunEntries /\ pc = "done" /\ ret # NoValue)
        => ~(IsError(ret) /\ (Usable(ret, "output") \/ Usable(ret, "result")))

C11_Witness ==
    /\ entry = "execute_step"
    /\ pc = "done"
    /\ Len(attempts) >= 1
    /\ IsError(ret)
    /\ "output" \in DOMAIN ret
    /\ ret.output = None

ConfigWorkflowRun == entry = "config_workflow.run_workflow"

\* the call asks for the legacy workflow: legacy mode is forced or no
\* configuration path was given
LegacyRequested == call_args.legacy_mode \/ call_args.config_path = NoPath

\* C12: config_workflow.run_workflow takes the configured path exactly
\* when a configuration path was given and legacy mode is off; in every
\* other case it runs the legacy workflow with the requested model, or
\* chatgpt when none was requested, and returns that workflow's result.
C12_SelectionRule ==
    (ConfigWorkflowRun /\ pc = "done") =>
        IF LegacyRequested
        THEN /\ raised = NoException
             /\ ret # NoValue
             /\ "config" \notin DOMAIN call_args
             /\ \A k \in 1..Len(invocations) :
                    invocations[k].fn =
                        FnOf(IF call_args.model = "None" THEN "chatgpt"
                             ELSE call_args.model)
        ELSE \/ "config" \in DOMAIN call_args
             \/ NotConfig(load_config(call_args.config_path))

\* C13: every layer returns a tagged success or error value for every
\* input and every provider outcome: no exception escapes an invoker,
\* execute_step, run_configurable_workflow or either run_workflow.
C13_NoExceptionEscapes == raised = NoException

AnyWorkflowRun == WorkflowRun \/ ConfigWorkflowRun

\* the run hands a directory to call_chatgpt or call_claude to be processed
\* file by file
PerFileRun ==
    \E k \in 1..Len(invocations) :
        IsIndividual(invocations[k].fn, invocations[k].input_data)

\* the k-th provider attempt failed with an error that is not retried
PermanentFailure(k) ==
    attempts[k].failed /\ ~IsTemporaryError(attempts[k].answer)

\* the run ended and its last provider attempt failed
EndedOnFailure ==
    pc = "done" /\ attempts # <<>> /\ attempts[Len(attempts)].failed

TemplateCall == entry = "process_template"

\* the call of process_template returned
TemplateResolved == TemplateCall /\ pc \in {"resolved", "done"} /\ raised = NoException

\* the call of process_template has ended, by a return or an exception
TemplateEnded == TemplateCall /\ pc \in {"resolved", "done"}

\* the step name and the field of a dotted placeholder, split at the
\* first dot
FirstDot(placeholder) == FirstIndex(placeholder, 1, ".")
StepNameOf(placeholder) == SubSeq(placeholder, 1, FirstDot(placeholder) - 1)
FieldOf(placeholder) ==
    SubSeq(placeholder, FirstDot(placeholder) + 1, Len(placeholder))

\* the placeholder names a step the context does not hold
UnknownStep(placeholder, ctx) ==
    /\ FirstDot(placeholder) # 0
    /\ Len(StepNameOf(placeholder)) # 1 \/ StepNameOf(placeholder)[1] \notin DOMAIN ctx

\* the placeholder names a field the step's record does not hold
MissingField(placeholder, ctx) ==
    /\ FirstDot(placeholder) # 0
    /\ Len(StepNameOf(placeholder)) = 1
    /\ StepNameOf(placeholder)[1] \in DOMAIN ctx \ {"input"}
    /\ \/ Len(FieldOf(placeholder)) # 1
       \/ FieldOf(placeholder)[1] \notin DOMAIN ctx[StepNameOf(placeholder)[1]]

\* a name without a dot other than input
UndottedName(placeholder) ==
    FirstDot(placeholder) = 0 /\ placeholder # <<"input">>

Unresolvable(placeholder, ctx) ==
    \/ UnknownStep(placeholder, ctx)
    \/ MissingField(placeholder, ctx)
    \/ UndottedName(placeholder)

\* C15: for every template and context, process_template returns a str
\* in which every placeholder that cannot be resolved (unknown step name,
\* missing field, a name without a dot other than input) stands verbatim.
C15_PassThrough ==
    TemplateEnded =>
        LET placeholders == FindPlaceholders(call_args.template, 1)
        IN  \A k \in 1..Len(placeholders) :
                Unresolvable(placeholders[k], call_args.context) =>
                    /\ raised = NoException
                    /\ Contains(ret.str, <<"{">> \o placeholders[k] \o <<"}">>)

\* C16: execute_step never fails because of templating: given a step
\* whose template holds a placeholder absent from the context, it calls
\* the model with the placeholder left verbatim in the prompt and returns
\* no error record for the template.
C16_StepTemplatePassThrough ==
    (/\ entry = "execute_step"
     /\ call_args.step_config = [name |-> "s2", model |-> "chatgpt",
                                 prompt_template |->
                                    <<"Review: ", "{", "s9", ".", "output", "}">>]
     /\ "s9" \notin DOMAIN call_args.context)
        => /\ raised = NoException
           /\ Len(invocations) = 1
           /\ invocations[1].input_data
                = StrInput(call_args.step_config.prompt_template)

\* the template is one placeholder with at least one dot, and nothing else
OneDottedPlaceholder ==
    LET placeholders == FindPlaceholders(call_args.template, 1)
    IN  /\ Len(placeholders) = 1
        /\ call_args.template = <<"{">> \o placeholders[1] \o <<"}">>
        /\ FirstDot(placeholders[1]) # 0

\* what resolving that placeholder split at its first dot gives: the
\* field's value when the step's record holds the field, else the
\* placeholder as it stands
FirstDotResolution ==
    LET placeholder == FindPlaceholders(call_args.template, 1)[1]
        ctx == call_args.context
    IN  IF \/ UnknownStep(placeholder, ctx)
           \/ MissingField(placeholder, ctx)
           \/ StepNameOf(placeholder) = <<"input">>
        THEN call_args.template
        ELSE TextOf(FieldOf(placeholder)[1],
                    ctx[StepNameOf(placeholder)[1]][FieldOf(placeholder)[1]])

\* C17: process_template splits a dotted placeholder at its first dot
\* only, substitutes the field's value when step and field exist and
\* leaves the placeholder verbatim otherwise, also for placeholders with
\* two or more dots and for the step name input; it never fails.
C17_FirstDotSplit ==
    (TemplateEnded /\ OneDottedPlaceholder) =>
        /\ raised = NoException
        /\ ret = StrInput(FirstDotResolution)

StepNames == DOMAIN context \ {"input"}

\* C19: in a run of a step list, every step name of the context maps to
\* the record of a step that succeeded (no error field, an output), the
\* names are those of the steps completed so far, and the step a run
\* failed at has no entry.
C19_OnlySuccessfulSteps ==
    (ChainedRun /\ ~IsError(input_result) /\ pc # "idle") =>
        /\ \A name \in StepNames :
              ~IsError(context[name]) /\ Usable(context[name], "output")
        /\ StepNames = {StepKey(k) : k \in 1..idx}
        /\ StepFailed => StepKey(idx + 1) \notin DOMAIN context

C19_Witness ==
    /\ StepFailed
    /\ idx = 1
    /\ IsError(ret)
    /\ attempts # <<>>
    /\ attempts[Len(attempts)].failed
    /\ StepNames = {StepKey(1)}
    /\ ~IsError(context[StepKey(1)])

\* C20: a record stored in the context stays as it was stored: no later
\* step, nor the aggregation, nor the output handling changes a field of
\* it or adds one.
C20_StoredRecordsImmutable ==
    [][(ChainedRun /\ ~IsError(input_result) /\ pc # "idle") =>
          \A name \in StepNames :
              name \in DOMAIN context' /\ context'[name] = context[name]]_vars

\* C21: during a run of a step list the context only grows: it starts with
\* the single key input, no key is removed, and the value under a key,
\* input included, is never replaced once written.
C21_ContextOnlyGrows ==
    [][(ChainedRun /\ ~IsError(input_result) /\ pc # "idle") =>
          /\ idx = 0 => DOMAIN context = {"input"}
          /\ \A key \in DOMAIN context :
                key \in DOMAIN context' /\ context'[key] = context[key]]_vars

\* C22: every outcome an invoker returns, for a str, a text or file dict
\* or a directory dict, on success and on failure, has a text field.
C22_OutcomeHasText ==
    pc = "returned" => "text" \in DOMAIN response

\* the attempts so far are j >= 1 transient failures followed by a success
RecoveredAfter(j) ==
    /\ j >= 1
    /\ Len(attempts) = j + 1
    /\ \A k \in 1..j :
          attempts[k].failed /\ IsTemporaryError(attempts[k].answer)
    /\ ~attempts[j + 1].failed

\* the outcome of a direct call whose first attempt succeeds with text
ImmediateSuccess(text) ==
    SuccessOutcome([fn |-> call_args.fn, prompt |-> call_args.prompt,
                    source |-> "direct"], text)

\* C23: when a provider call fails with transient errors j times,
\* 1 <= j <= max_retries, and then succeeds, the invoker returns the
\* outcome of an immediate success, without an error field, and a step
\* list records the step as successful.
C23_RetriesInvisible ==
    \A j \in 1..DefaultMaxRetries :
        /\ (DirectCallEnded /\ RecoveredAfter(j)) =>
              /\ j <= call_args.max_retries
              /\ ~IsError(response)
              /\ response = ImmediateSuccess(attempts[j + 1].answer)
        /\ (ChainedRun /\ pc = "returned" /\ RecoveredAfter(j)) =>
              ~IsError(response)
        /\ (ChainedRun /\ pc = "loop" /\ RecoveredAfter(j)) =>
              /\ idx = 1
              /\ steps = <<StepKey(1)>>
              /\ ~IsError(context[StepKey(1)])
              /\ context[StepKey(1)].output = attempts[j + 1].answer

C23_Witness ==
    /\ DirectCallEnded
    /\ RecoveredAfter(2)
    /\ call_args.max_retries = 2
    /\ call_args.fn = "call_claude"
    /\ ~IsError(response)
    /\ Len(sleeps) = 2

\* this step is a provider attempt failing with a message that holds none
\* of the transient indicators
PermanentFailureStep ==
    /\ Len(attempts') = Len(attempts) + 1
    /\ attempts'[Len(attempts')].failed
    /\ ~IsTemporaryError(attempts'[Len(attempts')].answer)

\* C24: a provider failure whose message holds none of the transient
\* indicators ends the call of call_chatgpt_single, call_claude_single or
\* call_web_search at that attempt, whatever retries remain: no sleep and
\* no further attempt of that call follow, and its outcome is an error
\* outcome carrying the message.
C24_PermanentFailureEndsCall ==
    [][PermanentFailureStep =>
          LET message == attempts'[Len(attempts')].answer
              outcome == ErrorOutcome(inv.fn, message)
          IN  /\ sleeps' = sleeps
              /\ outcome.error = message
              /\ inv.mode = "single" =>
                    /\ pc' = "returned"
                    /\ inv' = NoValue
                    /\ response' = outcome
              /\ inv.mode = "individual" =>
                    LET results == IF pc' = "returned" THEN response'.results
                                   ELSE inv'.results
                    IN  /\ Len(results) = Len(inv.results) + 1
                        /\ results[Len(results)].error = message
                        /\ results[Len(results)].file_path = inv.file_path
                        /\ pc' = "attempt" =>
                              inv'.retry_count = 0 /\ inv'.queue = Tail(inv.queue)
              /\ entry = "invoker" => pc' = "returned"]_vars

C24_Witness ==
    /\ DirectCallEnded
    /\ call_args.max_retries = 2
    /\ Len(attempts) = 2
    /\ attempts[1].failed /\ IsTemporaryError(attempts[1].answer)
    /\ PermanentFailure(2)
    /\ Len(sleeps) = 1
    /\ response = ErrorOutcome(call_args.fn, attempts[2].answer)

\* one call for one prompt: a direct call, or a run that has called one
\* invoker, not file by file
SinglePromptCall == Len(invocations) = 1 /\ ~PerFileRun

\* the retry budget of that call
Budget == IF entry = "invoker" THEN call_args.max_retries ELSE DefaultMaxRetries

\* the delays base, 2*base, 4*base, ... in units of the base
DoublingDelays == <<1, 2, 4, 8>>

\* C25: the sleep after the k-th failed attempt of a call, k >= 1, lasts
\* retry_delay x 2^(k-1): the delays are base, 2*base, 4*base, ...; there
\* is no sleep before the first attempt, and one sleep per retried failure.
C25_ExponentialBackoff ==
    SinglePromptCall =>
        /\ Len(sleeps) <= Len(attempts)
        /\ \A k \in 1..Len(sleeps) :
              /\ sleeps[k] = DoublingDelays[k]
              /\ attempts[k].failed
              /\ IsTemporaryError(attempts[k].answer)
        /\ \A k \in 1..Len(attempts) :
              (/\ attempts[k].failed
               /\ IsTemporaryError(attempts[k].answer)
               /\ k <= Budget) => k <= Len(sleeps)

C25_Witness ==
    /\ SinglePromptCall
    /\ entry = "run_workflow"
    /\ sleeps = <<1, 2, 4>>
    /\ Len(attempts) = 4
    /\ ~attempts[4].failed

\* the call used up its budget on transient failures
BudgetExhausted ==
    /\ DirectCallEnded
    /\ attempts # <<>>
    /\ AllTransient
    /\ Len(attempts) = call_args.max_retries + 1

\* C26: when transient failures exceed the retry budget the invoker
\* returns an error outcome of the shape {error, text} whose error message
\* is not the message of a provider failure but one that tells of the
\* exhausted retries.
C26_ExhaustionMessage ==
    BudgetExhausted =>
        /\ DOMAIN response = {"error", "text"}
        /\ \A k \in 1..Len(attempts) : response.error # attempts[k].answer

\* the loop over a step list never goes back: the steps completed are
\* step_1 .. step_idx, each executed by one invoker call
NoStepRevisited ==
    /\ steps = [k \in 1..idx |-> StepKey(k)]
    /\ idx <= ChainLength
    /\ Len(invocations) \in {idx, idx + 1}
    /\ Len(invocations) <= ChainLength

\* C27: every run ends, returning a value or an error, when each provider
\* attempt returns; a run of N steps with retry budget r makes at most
\* N * (r + 1) provider attempts and never executes a step twice, and a
\* retry loop ends after at most r + 1 attempts whatever the failures.
C27_RunsEnd ==
    /\ [](entry = "invoker" => Len(attempts) <= call_args.max_retries + 1)
    /\ []((ChainedRun /\ ~IsError(input_result) /\ pc # "idle") =>
            /\ NoStepRevisited
            /\ Len(attempts) <= ChainLength * (DefaultMaxRetries + 1))
    /\ (pc # "idle" /\ entry # "process_template")
          ~> (pc = "done" /\ (ret # NoValue \/ raised # NoException))

C27_Witness ==
    /\ ChainedRun
    /\ ChainLength = 2
    /\ pc = "done"
    /\ idx = 1
    /\ IsError(ret)
    /\ Len(attempts) = DefaultMaxRetries + 2
    /\ Len(invocations) = 2

\* a legacy run of one model on a text or a file that could be read
PlainLegacyRun ==
    /\ entry = "run_workflow"
    /\ call_args.model \in {"chatgpt", "claude", "web_search"}
    /\ call_args.cli \in TextInputs \cup FileInputs
    /\ ~IsError(input_result)

\* the text given as input_text, or the content read_file returns for
\* input_file (the empty text for a file of white space only)
RawInput ==
    IF call_args.cli.input_text # None THEN call_args.cli.input_text
    ELSE read_file(call_args.cli.input_file)

\* a call of process_single_input for one model
PlainSingleInput ==
    /\ entry = "process_single_input"
    /\ call_args.model \in {"chatgpt", "claude", "web_search"}

\* the provider client of each single model
InvokerOfModel ==
    [chatgpt |-> "call_chatgpt", claude |-> "call_claude",
     web_search |-> "call_web_search"]

\* C28: a legacy run with model chatgpt, claude or web_search on a text or
\* file input that resolves calls one invoker once, the one of the selected
\* model, with the raw input text as prompt: no placeholder in it is
\* substituted, and every provider attempt goes to that provider.
C28_OneRawInvocation ==
    /\ PlainLegacyRun =>
          /\ Len(invocations) = 1
          /\ invocations[1].fn = InvokerOfModel[call_args.model]
          /\ invocations[1].input_data = input_result
          /\ input_result.text = RawInput
          /\ \A k \in 1..Len(attempts) :
                /\ attempts[k].fn = InvokerOfModel[call_args.model]
                /\ call_args.model # "web_search" => attempts[k].content = RawInput
    /\ PlainSingleInput =>
          /\ invocations =
                <<[fn |-> InvokerOfModel[call_args.model],
                   input_data |-> StrInput(call_args.input_content)]>>
          /\ \A k \in 1..Len(attempts) : attempts[k].fn = InvokerOfModel[call_args.model]

C28_Witness ==
    /\ PlainLegacyRun
    /\ pc = "done"
    /\ call_args.model = "claude"
    /\ RawInput = <<"{", "input", "}">>
    /\ ~IsError(ret)
    /\ Len(attempts) = 2
    /\ attempts[2].content = <<"{", "input", "}">>

\* a call of process_single_input for the claude-first sequence
ClaudeFirstCall ==
    entry = "process_single_input" /\ call_args.model = "claude-first"

\* the texts the provider of fn answered with
AnswersOf(fn) ==
    {attempts[k].answer : k \in {j \in 1..Len(attempts) :
                                    attempts[j].fn = fn /\ ~attempts[j].failed}}

\* C29: in the claude-first sequence ChatGPT is given Claude's text inside
\* the fixed instruction phrase; when both calls succeed the result's main
\* output is ChatGPT's text and Claude's text is kept as it was under
\* claude_response; when the ChatGPT call fails the result is an error
\* without claude_response.
C29_ClaudeFirstResult ==
    ClaudeFirstCall =>
        /\ Len(invocations) >= 2 =>
              /\ Len(invocations) = 2
              /\ invocations[1].fn = "call_claude"
              /\ invocations[2].fn = "call_chatgpt"
              /\ \E text \in AnswersOf("call_claude") :
                    /\ AnswersOf("call_claude") = {text}
                    /\ invocations[2].input_data = StrInput(
                          <<"Here's an analysis from another AI assistant: ">>
                            \o text
                            \o <<"\n\nPlease review and refine this analysis.">>)
        /\ (pc = "done" /\ ~IsError(ret)) =>
              /\ Len(invocations) = 2
              /\ AnswersOf("call_chatgpt") = {ret.result}
              /\ AnswersOf("call_claude") = {ret.claude_response}
        /\ (pc = "done" /\ Len(invocations) = 2 /\ attempts[Len(attempts)].failed) =>
              /\ IsError(ret)
              /\ ret.error = attempts[Len(attempts)].answer
              /\ "claude_response" \notin DOMAIN ret

C29_Witness ==
    /\ ClaudeFirstCall
    /\ pc = "done"
    /\ ret.result = <<"X">>
    /\ ret.claude_response = <<"{", "x", "}">>
    /\ Len(attempts) = 2

\* the names step_1 .. step_n in order
StepNamesUpTo(n) == [k \in 1..n |-> StepKey(k)]

\* the attempts that succeeded, in order
Successes == SelectSeq(attempts, LAMBDA a : ~a.failed)

\* C30: when all N >= 1 steps of a step list have succeeded, the workflow
\* result is built from the record of step N and its steps field lists
\* the N step names in the order of execution, each once; and no result
\* without error is returned when fewer than N steps succeeded.
C30_CompleteAggregation ==
    (ChainedRun /\ ~IsError(input_result) /\ ChainLength >= 1) =>
        /\ (pc \in {"output", "done"} /\ idx = ChainLength) =>
              /\ result.steps = StepNamesUpTo(ChainLength)
              /\ Len(Successes) = ChainLength
              /\ result.step_name = StepKey(ChainLength)
              /\ result.model = call_args.config.ai_models[ChainLength].name
              /\ result.output = Successes[ChainLength].answer
              /\ \A k \in 1..(ChainLength - 1) :
                    result[StepKey(k)].output = Successes[k].answer
        /\ (pc = "done" /\ ret # NoValue /\ ~IsError(ret)) =>
              /\ idx = ChainLength
              /\ Len(Successes) = ChainLength
              /\ ret.result.steps = StepNamesUpTo(ChainLength)
        /\ (pc = "done" /\ Len(Successes) < ChainLength) => IsError(ret)

C30_Witness ==
    /\ ChainedRun
    /\ ChainLength = 2
    /\ pc = "done"
    /\ ret # NoValue
    /\ ~IsError(ret)
    /\ ret.result.steps = <<"step_1", "step_2">>
    /\ ret.result.output = <<"X">>
    /\ ret.result["step_1"].output = <<"{", "x", "}">>
    /\ Len(attempts) = 3

\* C31: a value without error returned by run_workflow, of workflow.py or
\* of config_workflow.py, has the keys model and input_source, and that of
\* the legacy workflow has result and metadata as well.
C31_SuccessKeys ==
    (/\ entry \in {"run_workflow", "config_workflow.run_workflow"}
     /\ pc = "done"
     /\ ret # NoValue
     /\ ~IsError(ret)) =>
        /\ {"model", "input_source"} \subseteq DOMAIN ret
        /\ entry = "run_workflow" => {"result", "metadata"} \subseteq DOMAIN ret

\* a configurable run has handled its output and returned a value
OutputReturned ==
    /\ ConfiguredRun
    /\ pc = "done"
    /\ output_args # NoValue
    /\ ret # NoValue
    /\ "format" \in DOMAIN ret

\* C32: in run_configurable_workflow the format_type the caller passes,
\* be it text, markdown, json or html, is the format the output is
\* rendered in, whatever format the configuration's output section names.
C32_CallerFormatWins ==
    (OutputReturned /\ output_args.format_type \in FormatTypes) =>
        ret.format = output_args.format_type

\* a run that resolves its input from arguments, and from the input
\* section of a configuration for a configurable run
InputRun == entry \in {"run_workflow", "run_configurable_workflow"}

\* a web search query counts as given: run_workflow tests "if web_search",
\* get_input_from_config "is not None"
QueryGiven ==
    IF entry = "run_workflow" THEN Truthy(call_args.cli.web_search)
    ELSE call_args.cli.web_search # None

\* the resolved input comes from this one source
FromQuery(query) ==
    input_result = [text |-> query, source |-> "web_search_query"]
FromDirectory(directory_path) ==
    \/ IsError(input_result)
    \/ /\ input_result.source = "directory"
       /\ input_result.directory_path = directory_path
FromFile(file_path) ==
    IF file_path \in DOMAIN FileContent
    THEN /\ ~IsError(input_result)
         /\ input_result.source = "file"
         /\ input_result.file_path = file_path
         /\ input_result.text \in {FileContent[file_path], <<>>}
    ELSE IsError(input_result)
FromText(text) ==
    IF IsBlank(text) THEN IsError(input_result)
    ELSE input_result = [text |-> text, source |-> "text"]
FromConfig(input_config) ==
    LET input_type == Get(input_config, "type", "None") IN
    CASE input_type = "text" -> FromText(Get(input_config, "value", <<>>))
      [] input_type = "file" -> FromFile(input_config.path)
      [] input_type = "directory" -> FromDirectory(input_config.path)
      [] OTHER -> IsError(input_result)

RecognizedStep ==
    /\ entry = "execute_step"
    /\ Get(call_args.step_config, "model", "chatgpt") \in ValidModels

C35_StepLeavesContext ==
    [][/\ (pc = "idle" /\ entry' = "execute_step") => context' = call_args'.context
       /\ (entry = "execute_step" /\ pc # "idle") =>
              context' = context /\ context = call_args.context
       /\ (ChainedRun /\ ~IsError(input_result) /\ pc # "idle") =>
              /\ (pc = "attempt" \/ pc' = "attempt") => context' = context
              /\ context' # context =>
                    \/ pc = "returned" /\ ~IsError(response) /\ pc' = "loop"
                    \/ pc \in {"loop", "output"} /\ steps # <<>>]_vars

C35_Witness ==
    /\ entry = "execute_step"
    /\ pc = "done"
    /\ Len(invocations) = 1
    /\ ret # NoValue
    /\ ~IsError(ret)
    /\ call_args.step_config.name = "s2"
    /\ context = [input |-> <<"hello">>, s1 |-> ExampleRecord]

\* the value process_template puts in place of a placeholder, if any
Substitutes(placeholder, ctx) ==
    LET parts == Split(placeholder)
    IN  IF placeholder = <<"input">> THEN "input" \in DOMAIN ctx
        ELSE /\ Len(parts) = 2
             /\ Len(parts[1]) = 1 /\ parts[1][1] \in DOMAIN ctx \ {"input"}
             /\ Len(parts[2]) = 1 /\ parts[2][1] \in DOMAIN ctx[parts[1][1]]
             /\ parts[2][1] \notin DictFields

ValueFor(placeholder, ctx) ==
    IF placeholder = <<"input">> THEN ctx.input
    ELSE LET parts == Split(placeholder)
         IN  TextOf(parts[2][1], ctx[parts[1][1]][parts[2][1]])

\* the template from position k on with each of its own placeholders
\* replaced at its place, the inserted values left as they are
RECURSIVE SimultaneousFrom(_, _, _)
SimultaneousFrom(t, k, ctx) ==
    IF k > Len(t) THEN <<>>
    ELSE IF t[k] # "{" THEN <<t[k]>> \o SimultaneousFrom(t, k + 1, ctx)
    ELSE LET close == FirstIndex(t, k + 1, "}")
         IN  IF close = 0 THEN SubSeq(t, k, Len(t))
             ELSE IF close = k + 1 THEN <<t[k]>> \o SimultaneousFrom(t, k + 1, ctx)
             ELSE IF Substitutes(SubSeq(t, k + 1, close - 1), ctx)
             THEN ValueFor(SubSeq(t, k + 1, close - 1), ctx)
                      \o SimultaneousFrom(t, close + 1, ctx)
             ELSE SubSeq(t, k, close) \o SimultaneousFrom(t, close + 1, ctx)

\* C36: the str process_template returns is the template with its own
\* placeholders substituted simultaneously: a value put in is not scanned
\* for placeholders again.
C36_SimultaneousSubstitution ==
    (entry = "process_template" /\ pc = "resolved") =>
        ret.str = SimultaneousFrom(call_args.template, 1, call_args.context)

\* C37: after a run of N >= 1 steps that all succeeded, the final result
\* holds no reference to itself among the steps' records attached to it,
\* and it is rendered in the format asked for without an exception.
C37_FinalResultRenders ==
    (ChainedRun /\ ~IsError(input_result) /\ pc \in {"output", "done"}
        /\ idx >= 1 /\ idx = ChainLength) =>
        /\ ~HasCycle(result)
        /\ raised = NoException

\* a configurable run whose ai_models list is empty
EmptyChain == ChainedRun /\ ChainLength = 0

\* C38: with an empty ai_models list run_configurable_workflow calls no
\* model; when the input resolves it returns, unless saving the output
\* fails, a value without error whose result has an empty steps list.
C38_EmptyChainNoCall ==
    EmptyChain =>
        /\ invocations = <<>>
        /\ attempts = <<>>
        /\ raised = NoException
        /\ (pc = "done" /\ ~IsError(input_result)) =>
              \/ IsError(ret) /\ ret.error[1] = "Error saving output to file: "
              \/ ~IsError(ret) /\ ret.result = [steps |-> <<>>]

C38_Witness ==
    /\ EmptyChain
    /\ pc = "done"
    /\ ret # NoValue
    /\ ~IsError(ret)
    /\ ret.output_type = "console"
    /\ ret.result.steps = <<>>
    /\ invocations = <<>>

\* the files of the directory handed to the invoker
FilesGiven == invocations[1].input_data.files

\* C39: for a directory processed file by file call_chatgpt and
\* call_claude work on the files one at a time in list order, go on with
\* the next file after one failed, and return a value without error in
\* which there is one result per file, in order, and successful_files +
\* failed_files = file_count = the number of files.
C39_PerFileResults ==
    PerFileRun =>
        /\ Len(invocations) = 1
        /\ pc = "attempt" =>
              /\ Len(inv.results) + 1 + Len(inv.queue) = Len(FilesGiven)
              /\ inv.file_path = FilesGiven[Len(inv.results) + 1].file_path
              /\ inv.prompt = FilesGiven[Len(inv.results) + 1].content
              /\ \A k \in 1..Len(inv.results) :
                    inv.results[k].file_path = FilesGiven[k].file_path
        /\ pc = "returned" =>
              /\ ~IsError(response)
              /\ response.file_count = Len(FilesGiven)
              /\ Len(response.results) = Len(FilesGiven)
              /\ \A k \in 1..Len(FilesGiven) :
                    response.results[k].file_path = FilesGiven[k].file_path
              /\ response.metadata.successful_files + response.metadata.failed_files
                    = response.file_count
              /\ response.metadata.failed_files =
                    Cardinality({k \in 1..Len(FilesGiven) :
                                    IsError(response.results[k])})

C39_Witness ==
    /\ PerFileRun
    /\ pc = "returned"
    /\ Len(FilesGiven) = 2
    /\ IsError(response.results[1])
    /\ ~IsError(response.results[2])
    /\ response.metadata = [successful_files |-> 1, failed_files |-> 1]
    /\ response.file_count = 2

\* the outcome is the one of the return that follows the retry loop
TrailingReturn(o) == IsError(o) /\ o.error = <<"Maximum retries exceeded">>

\* the call returns before its retry loop: call_web_search without a query
ReturnsBeforeLoop ==
    entry = "invoker" /\ call_args.fn = "call_web_search" /\ call_args.prompt = <<>>

\* the text handed to the invoker called last
LastQuery ==
    LET d == invocations[Len(invocations)].input_data
    IN  IF IsDict(d) THEN Get(d, "text", <<>>) ELSE d.str

\* C40: with max_retries >= 0 a retry loop that is entered makes at least
\* one provider attempt and never ends with Maximum retries exceeded; that
\* outcome is returned only for max_retries < 0, and then without any
\* provider attempt.
C40_TrailingReturnUnreachable ==
    /\ (pc \in {"returned", "output", "done"} /\ response # NoValue
           /\ TrailingReturn(response)) =>
            entry = "invoker" /\ call_args.max_retries < 0 /\ attempts = <<>>
    /\ (pc \in {"attempt", "returned"} /\ frame = "direct" /\ ~ReturnsBeforeLoop) =>
            IF call_args.max_retries >= 0
            THEN pc = "returned" => attempts # <<>> /\ ~TrailingReturn(response)
            ELSE pc = "returned" /\ attempts = <<>> /\ TrailingReturn(response)
    /\ (entry # "invoker" /\ pc = "returned" /\ ~PerFileRun
           /\ ~(invocations[Len(invocations)].fn = "call_web_search"
                 /\ ~Truthy(LastQuery))) =>
            attempts # <<>>

C40_Witness ==
    /\ entry = "invoker"
    /\ pc = "done"
    /\ call_args.max_retries = -1
    /\ call_args.prompt = <<"hello">>
    /\ attempts = <<>>
    /\ ret = [error |-> <<"Maximum retries exceeded">>, text |-> SorryText]

====
